---- MODULE Spec2Model ----
(***************************************************************************)
(* Model of repo-context-service: the ingestion pipeline and its status    *)
(* store (internal/ingest/inline.go, internal/cache/redis.go), the upload  *)
(* and repository RPC handlers (internal/api), and the bidirectional chat  *)
(* stream handler (ChatServer).                                            *)
(*                                                                         *)
(* Spec      ingestion, GetRepository and the Start of a chat stream,      *)
(*           interleaved.                                                  *)
(* ChatSpec  one chat stream in full (Start, ChatMessage, Cancel, the      *)
(*           query cycle), over a metadata store left by ingestion.        *)
(***************************************************************************)
EXTENDS Integers, Sequences, FiniteSets, TLC

VARIABLES
    uploadStatus,   \* Redis upload_status:{tenant}:{upload_id}
    repoMeta,       \* Redis repo_meta:{tenant}:{repository_id} (the ingestion state it records)
    repoIdx,        \* Redis repo_idx:{tenant}:{repo_key}
    jobs,           \* IngestionJob of every submission, with the position of its handler and goroutine
    nextJob,        \* the next repository id generateRepositoryID hands out
    resp,           \* the response of every UploadGitRepository call
    published,      \* history: per job, the last state it wrote to upload_status, and whether it wrote READY
    inbox,          \* chat stream: messages sent by the client and not yet received
    budget,         \* chat stream: messages the client may still send
    allowed,        \* chat stream: the messages the client chooses from
    spc,            \* chat stream: position of ChatWithRepository
    session,        \* chat stream: the handler's local variable session (0 = nil)
    sessions,       \* ChatServer.sessions
    nextSession,    \* the next id generateSessionID hands out
    ctxCancelled,   \* which contexts are cancelled: the stream's, and each session's child
    cycle,          \* chat stream: the query cycle in progress (its results, its loop index)
    events,         \* chat stream: the events sent on the stream in the current query cycle
    cycles,         \* chat stream: query cycles started so far
    streamResult,   \* chat stream: gRPC status ChatWithRepository returned (code "" while it runs)
    lastRecv,       \* history: kind of the last message stream.Recv returned
    calls,          \* history: retrieval and LLM calls made on the stream
    mChunks,        \* merger: the chunks of one file group, as deduplicateFileChunks holds them
    mDedup,         \* merger: the local slice deduplicated
    mIdx,           \* merger: how many chunks the loop of deduplicateFileChunks has taken
    mpc,            \* merger: position of deduplicateFileChunks
    bIn,            \* applyBoosts: the chunk and what its file and content are like
    bOut,           \* applyBoosts: the score returned (-1 before the call)
    cFile,          \* chunkFile: the file read, as runs of blank and non-blank lines
    cOpt,           \* chunkFile: options.ChunkSize, options.ChunkOverlap
    cI,             \* chunkFile: the loop variable i
    cChunks,        \* chunkFile: the local slice chunks
    cpc,            \* chunkFile: position ("loop", "done")
    eChunks,        \* embedding: number of chunks ChunkFiles returned for the repository
    eVecs,          \* embedding: the embedded chunks, each by the dimension of its vector
    eState,         \* embedding: job.Status.State
    eErr,           \* embedding: which call made processRepository return an error
    eCalls,         \* history: calls of embeddingClient.GenerateEmbeddings
    eStore,         \* the repository's collection in the vector store, and its work directory
    dCalls,         \* history: what each DeleteIndex call returned
    epc,            \* embedding: position of processRepository ("embed", "index", "fail", "done")
    kIn,            \* keys: two tenant ids and an id for each, as callers pass them
    kKeys,          \* keys: the Redis keys built for each of the two (<<>> before the call)
    ups,            \* streaming upload: the UploadRepository calls, all with one (tenant, key)
    uStatus,        \* streaming upload: repository id in upload_status of that key (0 = absent)
    uStarted,       \* streaming upload: repository ids a pipeline goroutine was started for
    lIn,            \* listing: number of repositories of the tenant, and the client's page_size
    lToken,         \* listing: the next_page_token of the last response
    lPages,         \* listing: the pages the client has received, in order
    rIn,            \* ranking: boosted scores of the chunks to rank, rm.maxResults, max_results
    rOut,           \* ranking: the scores of the chunks, in the order of the list being built
    rpc,            \* ranking: position ("rank", "take", "done")
    limiters,       \* rate limiter: r.limiters[tenant], one tenant (0 = no entry, else the limiter)
    buckets,        \* rate limiter: tokens left in every limiter created
    reaped,         \* history: entries cleanupLimiter has deleted
    sleepers,       \* rate limiter: cleanupLimiter goroutines still asleep
    reqs,           \* rate limiter: the requests of the tenant, each with its position in checkRateLimit
    wsConn,         \* bridge: the WebSocket connection (client side up, messages not yet read, messages sent, Close called)
    grpcStream,     \* bridge: the gRPC client stream (its state, responses not yet received, its context)
    bridge,         \* bridge: positions of webSocketToGRPC (w), grpcToWebSocket (g), HandleWebSocket (h)
    connections,    \* bridge: h.connections, as the set of registered connection ids
    llm,            \* composer: d.config.StreamTokens, the content deltas of the LLM response, how many were read, position
    tokens,         \* composer: the texts of the CompositionToken events sent, in order
    wv,             \* vector store: one repository id, the class that exists for it, the name each access used, the hits of the last search (-1: none made)
    life            \* DeleteRepository calls: the repositories a call has returned success for, and the code of the last call

ingestVars == <<uploadStatus, repoMeta, repoIdx, jobs, nextJob, resp, published>>
chatVars == <<inbox, budget, allowed, spc, session, sessions, nextSession, ctxCancelled,
              cycle, events, cycles, streamResult, lastRecv, calls>>
libVars == <<mChunks, mDedup, mIdx, mpc, bIn, bOut, cFile, cOpt, cI, cChunks, cpc,
             eChunks, eVecs, eState, eErr, eCalls, eStore, dCalls, epc, kIn, kKeys,
             ups, uStatus, uStarted, lIn, lToken, lPages, rIn, rOut, rpc,
             limiters, buckets, reaped, sleepers, reqs,
             wsConn, grpcStream, bridge, connections,
             llm, tokens,
             wv,
             life>>
vars == <<ingestVars, chatVars, libVars>>

----------------------------------------------------------------------------
(* Bounds *)

MaxJobs == 2        \* submissions (and so repository ids)
NumKeys == 1        \* idempotency keys a caller chooses from
MaxMsgs == 3        \* messages a client sends on the chat stream
MaxInbox == 1       \* messages in flight on the chat stream
MaxBackendHits == 2 \* chunks one search backend returns
MaxTokens == 2      \* content deltas the LLM streams in one composition
MaxChunks == 3      \* chunks of one file the two backends return together
MaxRuns == 3        \* runs of blank / non-blank lines a file consists of
MaxEmbedChunks == 3 \* chunks of the repository that is embedded and indexed
MaxDeletes == 2     \* DeleteIndex calls for one repository
MaxTenantLen == 2   \* characters of a tenant id
MaxUploads == 2     \* UploadRepository calls with one (tenant, idempotency_key)
MaxParts == 2       \* messages with file data one upload consists of
MaxRepos == 3       \* repositories of the tenant that lists
MaxPages == 3       \* ListRepositories calls of one client
MaxCallers == 2     \* requests of one tenant in flight at a time
MaxRequests == 2    \* requests each of them makes, one after the other
BurstSize == 2      \* r.config.BurstSize (RATE_LIMIT_BURST)
MaxEvents == 2      \* responses of the gRPC stream the bridge has not yet received
MaxIdLen == 3       \* characters of a repository id after its prefix
MaxSize == 3        \* chunk_size of the small chunk options
MaxWindows == 12    \* lines of a file that is chunked with them, and chunks kept of a loop that does not end

Tenants == {"local"}
IdemKeys == 1..NumKeys
Urls == {"https://host/x/y.git"}
RepoIds == 1..MaxJobs
UploadKeys == Tenants \X IdemKeys
MetaKeys == Tenants \X RepoIds
RoutingKeys == Tenants \X Urls

----------------------------------------------------------------------------
(* Ingestion states: IngestionStatus_State, in pipeline order *)

PipelineStates == <<"PENDING", "EXTRACTING", "CHUNKING", "EMBEDDING", "INDEXING", "READY">>

States == {PipelineStates[i] : i \in 1..Len(PipelineStates)} \cup {"FAILED"}

StateIndex(s) == CHOOSE i \in 1..Len(PipelineStates) : PipelineStates[i] = s

\* The state processRepository sets after s.
NextState(s) == PipelineStates[StateIndex(s) + 1]

\* A key with no value in the store (redis.Nil).
NoStatus == [repo |-> 0, state |-> "ABSENT", progress |-> 0, err |-> ""]
NoMeta == "ABSENT"
NoRoute == 0

NoJob == [tenant |-> "", key |-> 0, url |-> "", state |-> "ABSENT", progress |-> 0, err |-> "",
          existing |-> 0, ppc |-> "none", hpc |-> "idle", ctx |-> "live"]

NoPublished == [last |-> "ABSENT", ready |-> FALSE]

NoResp == [code |-> "", repo |-> 0]

Submitted == 1..(nextJob - 1)

\* cache.CachedUploadStatus built from a job (updateJobStatus, processRepositoryAsync).
CachedStatus(j) ==
    [repo |-> j, state |-> jobs[j].state, progress |-> jobs[j].progress, err |-> jobs[j].err]

\* RedisCache.SetUploadStatus: one SET; ok = FALSE is a failed round trip, which
\* leaves the store as it was.
SetUploadStatus(k, st, ok) ==
    /\ uploadStatus' = IF ok THEN [uploadStatus EXCEPT ![k] = st] ELSE uploadStatus
    /\ published' = IF ok THEN [published EXCEPT ![st.repo] =
                                   [last |-> st.state, ready |-> @.ready \/ st.state = "READY"]]
                          ELSE published

JobKey(j) == <<jobs[j].tenant, jobs[j].key>>

----------------------------------------------------------------------------
(* UploadServer.UploadGitRepository and InlineProcessor.CreateRepositoryIndex *)

\* A request whose git_repository.url is empty is rejected before any state is
\* touched; generateRepositoryID has already run.
UploadRejected ==
    /\ nextJob <= MaxJobs
    /\ nextJob' = nextJob + 1
    /\ jobs' = [jobs EXCEPT ![nextJob].hpc = "done"]
    /\ resp' = [resp EXCEPT ![nextJob] = [NoResp EXCEPT !.code = "InvalidArgument"]]
    /\ UNCHANGED <<uploadStatus, repoMeta, repoIdx, published, chatVars>>

\* The handler up to the return of CreateRepositoryIndex: the job is created
\* PENDING, its status is cached, and the pipeline goroutine is started. No lookup
\* of an existing status precedes this: both idempotency checks are commented out
\* in the source ("TEMPORARILY DISABLED"). The job records in `existing` the
\* repository id the key held when the call arrived (0: the key was absent).
UploadGitRepository(t, k, u, ok) ==
    /\ nextJob <= MaxJobs
    /\ nextJob' = nextJob + 1
    /\ LET j == nextJob
           job == [tenant |-> t, key |-> k, url |-> u, state |-> "PENDING", progress |-> 0,
                   err |-> "", existing |-> uploadStatus[<<t, k>>].repo, ppc |-> "none",
                   hpc |-> "idle", ctx |-> "live"]
       IN IF ok
          THEN /\ jobs' = [jobs EXCEPT ![j] = [job EXCEPT !.ppc = "set", !.hpc = "meta"]]
               /\ SetUploadStatus(<<t, k>>, [repo |-> j, state |-> "PENDING", progress |-> 0,
                                             err |-> ""], TRUE)
               /\ UNCHANGED resp
          ELSE \* "failed to cache upload status": no goroutine is started
               /\ jobs' = [jobs EXCEPT ![j] = [job EXCEPT !.hpc = "done"]]
               /\ resp' = [resp EXCEPT ![j] = [NoResp EXCEPT !.code = "Internal"]]
               /\ UNCHANGED <<uploadStatus, published>>
    /\ UNCHANGED <<repoMeta, repoIdx, chatVars>>

\* The request context of job j's handler being done, as the job records it: "early"
\* if the pipeline had not left PENDING by then, "late" otherwise.
CtxDone(j) == IF jobs[j].state = "PENDING" THEN "early" ELSE "late"

\* The caller cancels the request while the handler runs.
CallerCancel(j) ==
    /\ j \in Submitted
    /\ jobs[j].hpc = "meta"
    /\ jobs[j].ctx = "live"
    /\ jobs' = [jobs EXCEPT ![j].ctx = CtxDone(j)]
    /\ UNCHANGED <<uploadStatus, repoMeta, repoIdx, nextJob, resp, published, chatVars>>

\* The rest of the handler. "Create repository metadata for listing":
\* IngestionStatus is ingestResp.Status, the pointer the goroutine writes through,
\* so the state stored is the one the job holds when the record is serialized; a
\* failed write is only logged, and the write fails if the request context is done.
\* The response carries the repository id generated for this call. The request
\* context is done once the handler has returned.
UploadStoreMetadata(j, ok) ==
    /\ j \in Submitted
    /\ jobs[j].hpc = "meta"
    /\ ok => jobs[j].ctx = "live"
    /\ repoMeta' = IF ok THEN [repoMeta EXCEPT ![<<jobs[j].tenant, j>>] = jobs[j].state]
                         ELSE repoMeta
    /\ jobs' = [jobs EXCEPT ![j].hpc = "done",
                            ![j].ctx = IF @ = "live" THEN CtxDone(j) ELSE @]
    /\ resp' = [resp EXCEPT ![j] = [code |-> "OK", repo |-> j]]
    /\ UNCHANGED <<uploadStatus, repoIdx, nextJob, published, chatVars>>

----------------------------------------------------------------------------
(* InlineProcessor.processRepositoryAsync / processRepository, one goroutine per job *)

\* job.Status.State = <next state> (and ProgressPercent = 100 with READY).
PipelineSetState(j) ==
    /\ j \in Submitted
    /\ jobs[j].ppc = "set"
    /\ LET s == NextState(jobs[j].state)
       IN jobs' = [jobs EXCEPT ![j].state = s,
                               ![j].progress = IF s = "READY" THEN 100 ELSE @,
                               ![j].ppc = "publish"]
    /\ UNCHANGED <<uploadStatus, repoMeta, repoIdx, nextJob, resp, published, chatVars>>

\* Where the goroutine goes after it has published state s.
AfterPublish(s) ==
    CASE s = "READY" -> "meta"
      [] s = "FAILED" -> "done"
      [] OTHER -> "work"

\* updateJobStatus, and the SetUploadStatus of processRepositoryAsync. The code
\* drops the error of this write; the write is taken to reach the store.
PipelinePublish(j) ==
    /\ j \in Submitted
    /\ jobs[j].ppc = "publish"
    /\ SetUploadStatus(JobKey(j), CachedStatus(j), TRUE)
    /\ jobs' = [jobs EXCEPT ![j].ppc = AfterPublish(jobs[j].state)]
    /\ UNCHANGED <<repoMeta, repoIdx, nextJob, resp, chatVars>>

\* The goroutine running on the context of the request that submitted the job.
PipelineCtxDone_Caller(j) == jobs[j].ctx # "live"

\* Whether the context of job j's goroutine is done: it is context.Background().
PipelineCtxDone(j) == FALSE

\* The work of the stage just published: ExtractRepository, ChunkFiles,
\* GenerateEmbeddings or IndexEmbeddings. An error returns from processRepository;
\* a stage whose context is done returns the context's error.
PipelineStage(j, ok) ==
    /\ j \in Submitted
    /\ jobs[j].ppc = "work"
    /\ ok => ~PipelineCtxDone(j)
    /\ jobs' = [jobs EXCEPT ![j].ppc = IF ok THEN "set" ELSE "fail",
                            ![j].err = IF PipelineCtxDone(j) THEN "context canceled" ELSE @]
    /\ UNCHANGED <<uploadStatus, repoMeta, repoIdx, nextJob, resp, published, chatVars>>

\* "Store repository metadata", after READY has been published.
PipelineStoreMetadata(j, ok) ==
    /\ j \in Submitted
    /\ jobs[j].ppc = "meta"
    /\ repoMeta' = IF ok THEN [repoMeta EXCEPT ![<<jobs[j].tenant, j>>] = jobs[j].state]
                         ELSE repoMeta
    /\ jobs' = [jobs EXCEPT ![j].ppc = IF ok THEN "routing" ELSE "fail"]
    /\ UNCHANGED <<uploadStatus, repoIdx, nextJob, resp, published, chatVars>>

\* "Set repository routing".
PipelineSetRouting(j, ok) ==
    /\ j \in Submitted
    /\ jobs[j].ppc = "routing"
    /\ repoIdx' = IF ok THEN [repoIdx EXCEPT ![<<jobs[j].tenant, jobs[j].url>>] = j]
                        ELSE repoIdx
    /\ jobs' = [jobs EXCEPT ![j].ppc = IF ok THEN "done" ELSE "fail"]
    /\ UNCHANGED <<uploadStatus, repoMeta, nextJob, resp, published, chatVars>>

\* calculateProgress, in whole percent: files 30, embeddings 50, indexing 20.
\* processRepository hands the value to req.ProgressCallback (SetCounts), which the
\* upload handlers set to a function with an empty body; job.Progress is not written.
calculateProgress(totalFiles, processedFiles, totalChunks, embeddedChunks, indexedChunks) ==
    IF totalFiles = 0 THEN 0
    ELSE (30 * processedFiles) \div totalFiles
         + (IF totalChunks > 0 THEN (50 * embeddedChunks) \div totalChunks ELSE 0)
         + (IF totalChunks > 0 THEN (20 * indexedChunks) \div totalChunks ELSE 0)

\* The error branch with the write of the FAILED status left out.
PipelineFail_NoPublish(j) ==
    /\ j \in Submitted
    /\ jobs[j].ppc = "fail"
    /\ jobs' = [jobs EXCEPT ![j].state = "FAILED", ![j].err = IF @ = "" THEN "error" ELSE @,
                            ![j].ppc = "done"]
    /\ UNCHANGED <<uploadStatus, repoMeta, repoIdx, nextJob, resp, published, chatVars>>

\* processRepositoryAsync, processRepository having returned an error:
\* job.Status.State = FAILED, job.ErrorMessage = err.Error(); the write follows.
PipelineFail(j) ==
    /\ j \in Submitted
    /\ jobs[j].ppc = "fail"
    /\ jobs' = [jobs EXCEPT ![j].state = "FAILED", ![j].err = IF @ = "" THEN "error" ELSE @,
                            ![j].ppc = "publish"]
    /\ UNCHANGED <<uploadStatus, repoMeta, repoIdx, nextJob, resp, published, chatVars>>

----------------------------------------------------------------------------
(* RepositoryServer.GetRepository *)

\* InlineProcessor.GetIndexStatus: "a simplified version", READY for every id.
GetIndexStatus(r) == "READY"

\* A repository found neither READY nor FAILED is given the status the ingestion
\* provider reports, and written back ("Update cache with new status"). A call that
\* finds the repository absent, READY or FAILED changes nothing.
GetRepository(t, r) ==
    /\ repoMeta[<<t, r>>] \notin {NoMeta, "READY", "FAILED"}
    /\ repoMeta' = [repoMeta EXCEPT ![<<t, r>>] = GetIndexStatus(r)]
    /\ UNCHANGED <<uploadStatus, repoIdx, jobs, nextJob, resp, published, chatVars>>

----------------------------------------------------------------------------
(* ChatServer.ChatWithRepository: one bidirectional stream *)

MessageKinds == {"Start", "ChatMessage", "Cancel", "Unknown"}

\* ChatOptions.max_results a client sends (0 = unset).
MaxResultsChoices == {0, 3}

StartMessages ==
    [kind : {"Start"}, tenant : Tenants, repo : RepoIds, streamTokens : BOOLEAN,
     maxResults : MaxResultsChoices]

OtherMessage(kind) ==
    [kind |-> kind, tenant |-> "", repo |-> 0, streamTokens |-> FALSE, maxResults |-> 0]

Messages == StartMessages \cup {OtherMessage(k) : k \in MessageKinds \ {"Start"}}

NoSession == [id |-> 0, tenant |-> "", repo |-> 0, streamTokens |-> FALSE, maxResults |-> 0]

NoCycle == [n |-> 0, i |-> 0, tokens |-> 0, lexOk |-> TRUE, semOk |-> TRUE, searchOk |-> TRUE,
            composeOk |-> TRUE]

Running == [code |-> "", msg |-> ""]

Event(type, rank, phase, n) == [type |-> type, rank |-> rank, phase |-> phase, n |-> n]

\* The client sends a message of a kind it uses, while the transport is up.
ClientSend(m) ==
    /\ budget > 0
    /\ m \in allowed
    /\ Len(inbox) < MaxInbox
    /\ ~ctxCancelled.stream
    /\ inbox' = Append(inbox, m)
    /\ budget' = budget - 1
    /\ UNCHANGED <<ingestVars, allowed, spc, session, sessions, nextSession, ctxCancelled,
                   cycle, events, cycles, streamResult, lastRecv, calls>>

\* The client drops the connection: the stream's context is cancelled, after which
\* Recv and Send fail.
ClientAbort ==
    /\ spc # "closed"
    /\ ~ctxCancelled.stream
    /\ ctxCancelled' = [ctxCancelled EXCEPT !.stream = TRUE]
    /\ UNCHANGED <<ingestVars, inbox, budget, allowed, spc, session, sessions, nextSession,
                   cycle, events, cycles, streamResult, lastRecv, calls>>

\* ChatServer.cleanupSession: a session still in the map has its CancelFunc called
\* and is deleted.
CleanupSessions(sess) == {x \in sessions : x.id # sess.id}

CleanupCancelled(sess) ==
    IF \E x \in sessions : x.id = sess.id
    THEN ctxCancelled.sessions \cup {sess.id} ELSE ctxCancelled.sessions

\* ChatWithRepository returns with a status: the deferred cleanup runs on the value
\* the local variable session holds, and gRPC cancels the stream's context.
Return(sess, code, msg) ==
    /\ spc' = "closed"
    /\ streamResult' = [code |-> code, msg |-> msg]
    /\ session' = sess
    /\ sessions' = IF sess # NoSession THEN CleanupSessions(sess) ELSE sessions
    /\ ctxCancelled' = [stream |-> TRUE,
                        sessions |-> IF sess # NoSession THEN CleanupCancelled(sess)
                                     ELSE ctxCancelled.sessions]

\* The same, after session.CancelFunc() has been called (case ChatRequest_Cancel).
ReturnCancelled(sess, code, msg) ==
    /\ spc' = "closed"
    /\ streamResult' = [code |-> code, msg |-> msg]
    /\ session' = sess
    /\ sessions' = IF sess # NoSession THEN CleanupSessions(sess) ELSE sessions
    /\ ctxCancelled' = [stream |-> TRUE,
                        sessions |-> IF sess # NoSession
                                     THEN ctxCancelled.sessions \cup {sess.id}
                                     ELSE ctxCancelled.sessions]

\* stream.Recv returns an error: the transport is gone.
RecvError ==
    /\ spc = "recv"
    /\ ctxCancelled.stream
    /\ Return(session, "Canceled", "context canceled")
    /\ UNCHANGED <<ingestVars, inbox, budget, allowed, nextSession, cycle, events, cycles,
                   lastRecv, calls>>

\* What handleChatStart decides from the repo_meta read (ok = FALSE: the read failed).
StartOutcome(meta, ok) ==
    CASE ~ok -> [code |-> "Internal", msg |-> "failed to get repository"]
      [] ok /\ meta = NoMeta -> [code |-> "NotFound", msg |-> "repository not found"]
      [] ok /\ meta \notin {NoMeta, "READY"} ->
            [code |-> "FailedPrecondition", msg |-> "repository is not ready"]
      [] OTHER -> [code |-> "OK", msg |-> ""]

\* case ChatRequest_Start: session, err = s.handleChatStart(...). The local variable
\* is assigned whatever handleChatStart returns, nil on an error.
RecvStart(ok) ==
    /\ spc = "recv"
    /\ inbox # <<>>
    /\ Head(inbox).kind = "Start"
    /\ inbox' = Tail(inbox)
    /\ lastRecv' = "Start"
    /\ LET m == Head(inbox)
           out == StartOutcome(repoMeta[<<m.tenant, m.repo>>], ok)
           new == [id |-> nextSession, tenant |-> m.tenant, repo |-> m.repo,
                   streamTokens |-> m.streamTokens, maxResults |-> m.maxResults]
       IN IF out.code = "OK"
          THEN /\ session' = new
               /\ sessions' = sessions \cup {new}
               /\ nextSession' = nextSession + 1
               /\ UNCHANGED <<spc, streamResult, ctxCancelled>>
          ELSE /\ Return(NoSession, out.code, out.msg)
               /\ UNCHANGED nextSession
    /\ UNCHANGED <<ingestVars, budget, allowed, cycle, events, cycles, calls>>

\* stream.Send: fails once the transport is gone.
SendOk == ~ctxCancelled.stream

\* A ChatMessage handled without the nil check on session.
RecvChatMessage_NoNilCheck ==
    /\ spc = "recv"
    /\ inbox # <<>>
    /\ Head(inbox).kind = "ChatMessage"
    /\ inbox' = Tail(inbox)
    /\ lastRecv' = "ChatMessage"
    /\ IF ~SendOk
       THEN /\ Return(session, "Unavailable", "transport is closing")
            /\ cycle' = NoCycle
            /\ events' = <<>>
            /\ cycles' = cycles + 1
            /\ UNCHANGED calls
       ELSE /\ spc' = "search"
            /\ cycle' = NoCycle
            /\ events' = <<Event("SearchStarted", 0, "", 0)>>
            /\ cycles' = cycles + 1
            /\ calls' = calls + 1
            /\ UNCHANGED <<session, sessions, streamResult, ctxCancelled>>
    /\ UNCHANGED <<ingestVars, budget, allowed, nextSession>>

\* case ChatRequest_ChatMessage: the nil check, then handleChatMessage up to the
\* call of performDualSearch (generateQueryID, Send(SearchStarted)).
RecvChatMessage ==
    /\ spc = "recv"
    /\ inbox # <<>>
    /\ Head(inbox).kind = "ChatMessage"
    /\ inbox' = Tail(inbox)
    /\ lastRecv' = "ChatMessage"
    /\ IF session = NoSession
       THEN /\ Return(session, "FailedPrecondition", "session not initialized")
            /\ UNCHANGED <<cycle, events, cycles, calls>>
       ELSE IF ~SendOk
       THEN /\ Return(session, "Unavailable", "transport is closing")
            /\ cycle' = NoCycle
            /\ events' = <<>>
            /\ cycles' = cycles + 1
            /\ UNCHANGED calls
       ELSE /\ spc' = "search"
            /\ cycle' = NoCycle
            /\ events' = <<Event("SearchStarted", 0, "", 0)>>
            /\ cycles' = cycles + 1
            /\ calls' = calls + 1
            /\ UNCHANGED <<session, sessions, streamResult, ctxCancelled>>
    /\ UNCHANGED <<ingestVars, budget, allowed, nextSession>>

\* case ChatRequest_Cancel: the session's CancelFunc, then return nil.
RecvCancel ==
    /\ spc = "recv"
    /\ inbox # <<>>
    /\ Head(inbox).kind = "Cancel"
    /\ inbox' = Tail(inbox)
    /\ lastRecv' = "Cancel"
    /\ ReturnCancelled(session, "OK", "")
    /\ UNCHANGED <<ingestVars, budget, allowed, nextSession, cycle, events, cycles, calls>>

\* default: "unknown message type".
RecvUnknown ==
    /\ spc = "recv"
    /\ inbox # <<>>
    /\ Head(inbox).kind = "Unknown"
    /\ inbox' = Tail(inbox)
    /\ lastRecv' = "Unknown"
    /\ Return(session, "InvalidArgument", "unknown message type")
    /\ UNCHANGED <<ingestVars, budget, allowed, nextSession, cycle, events, cycles, calls>>

----------------------------------------------------------------------------
(* ChatServer.handleChatMessage: the query cycle *)

Min(a, b) == IF a < b THEN a ELSE b

\* getTopK: ChatOptions.max_results when positive, else 10.
getTopK(sess) == IF sess.maxResults > 0 THEN sess.maxResults ELSE 10

\* What a search backend returns: an error, or n chunks.
BackendResults == [ok : {FALSE}, n : {0}] \cup [ok : {TRUE}, n : 0..MaxBackendHits]

\* Sizes of the list MergeAndRank may return for nl lexical and ns semantic chunks:
\* deduplicateAndRank merges chunks of one file that overlap, and the list is cut
\* to the merger's own maxResults.
MergedSizes(nl, ns) == 0..(nl + ns)

\* performDualSearch: lexical search, then the query embedding, then semantic
\* search, one after the other; the first error is returned.
performDualSearch(lex, embOk, sem, merged, limit) ==
    IF ~lex.ok THEN [ok |-> FALSE, n |-> 0]
    ELSE IF ~embOk THEN [ok |-> FALSE, n |-> 0]
    ELSE IF ~sem.ok THEN [ok |-> FALSE, n |-> 0]
    ELSE [ok |-> TRUE, n |-> Min(limit, merged)]

\* The early-hit loop entered only above three results.
AfterSearch_OffByOne(n) == IF n > 3 THEN "early" ELSE "final"

\* Where handleChatMessage goes with n search results: the early-hit loop runs
\* only if len(searchResults) >= 3.
AfterSearch(n) == IF n >= 3 THEN "early" ELSE "final"

\* performDualSearch returns. An error ends ChatWithRepository with
\* codes.Internal "search failed".
SearchReturn(lex, embOk, sem, merged) ==
    /\ spc = "search"
    /\ merged \in MergedSizes(lex.n, sem.n)
    /\ LET r == performDualSearch(lex, embOk, sem, merged, getTopK(session))
           c == [cycle EXCEPT !.lexOk = lex.ok, !.semOk = embOk /\ sem.ok, !.searchOk = r.ok,
                              !.n = r.n, !.i = 0]
       IN /\ cycle' = c
          /\ IF r.ok
             THEN /\ spc' = AfterSearch(r.n)
                  /\ UNCHANGED <<session, sessions, streamResult, ctxCancelled>>
             ELSE Return(session, "Internal", "search failed")
    /\ UNCHANGED <<ingestVars, inbox, budget, allowed, nextSession, events, cycles, lastRecv,
                   calls>>

\* for i, result := range searchResults[:3]: Send(SearchHit{EARLY, i+1}); after the
\* third, earlyHitsSent = true and startIdx = 3.
SendEarlyHit ==
    /\ spc = "early"
    /\ IF SendOk
       THEN /\ events' = Append(events, Event("SearchHit", cycle.i + 1, "EARLY", 0))
            /\ cycle' = [cycle EXCEPT !.i = @ + 1]
            /\ spc' = IF cycle.i + 1 = 3 THEN "final" ELSE "early"
            /\ UNCHANGED <<session, sessions, streamResult, ctxCancelled>>
       ELSE /\ Return(session, "Unavailable", "transport is closing")
            /\ UNCHANGED <<events, cycle>>
    /\ UNCHANGED <<ingestVars, inbox, budget, allowed, nextSession, cycles, lastRecv, calls>>

\* for i := startIdx; i < len(searchResults); i++: Send(SearchHit{FINAL, i+1}).
SendFinalHit ==
    /\ spc = "final"
    /\ cycle.i < cycle.n
    /\ IF SendOk
       THEN /\ events' = Append(events, Event("SearchHit", cycle.i + 1, "FINAL", 0))
            /\ cycle' = [cycle EXCEPT !.i = @ + 1]
            /\ UNCHANGED <<spc, session, sessions, streamResult, ctxCancelled>>
       ELSE /\ Return(session, "Unavailable", "transport is closing")
            /\ UNCHANGED <<events, cycle>>
    /\ UNCHANGED <<ingestVars, inbox, budget, allowed, nextSession, cycles, lastRecv, calls>>

\* Send(CompositionStarted{ContextChunks: len(searchResults)}), then the call of the
\* composer.
SendCompositionStarted ==
    /\ spc = "final"
    /\ cycle.i >= cycle.n
    /\ IF SendOk
       THEN /\ events' = Append(events, Event("CompositionStarted", 0, "", cycle.n))
            /\ spc' = "compose"
            /\ calls' = calls + 1
            /\ UNCHANGED <<session, sessions, streamResult, ctxCancelled>>
       ELSE /\ Return(session, "Unavailable", "transport is closing")
            /\ UNCHANGED <<events, calls>>
    /\ UNCHANGED <<ingestVars, inbox, budget, allowed, nextSession, cycle, cycles, lastRecv>>

\* Every cycle composed through ComposeAnswerStream, whatever the options say.
Streaming_Always(sess) == TRUE

\* Whether the cycle composes through ComposeAnswerStream.
Streaming(sess) == sess.streamTokens

\* ComposeAnswerStream calls back with one content delta: Send(CompositionToken).
\* An error of the callback fails the composition.
ComposeToken ==
    /\ spc = "compose"
    /\ Streaming(session)
    /\ cycle.tokens < MaxTokens
    /\ IF SendOk
       THEN /\ events' = Append(events, Event("CompositionToken", 0, "", 0))
            /\ cycle' = [cycle EXCEPT !.tokens = @ + 1]
            /\ UNCHANGED <<spc, session, sessions, streamResult, ctxCancelled>>
       ELSE /\ Return(session, "Internal", "composition failed")
            /\ UNCHANGED <<events, cycle>>
    /\ UNCHANGED <<ingestVars, inbox, budget, allowed, nextSession, cycles, lastRecv, calls>>

\* A composition that returns a result without CompositionComplete being sent.
ComposeReturn_NoCompositionComplete(ok) ==
    /\ spc = "compose"
    /\ cycle' = [cycle EXCEPT !.composeOk = ok]
    /\ IF ~ok
       THEN /\ Return(session, "Internal", "composition failed")
            /\ UNCHANGED events
       ELSE /\ spc' = "complete"
            /\ UNCHANGED <<events, session, sessions, streamResult, ctxCancelled>>
    /\ UNCHANGED <<ingestVars, inbox, budget, allowed, nextSession, cycles, lastRecv, calls>>

\* ComposeAnswerStream / ComposeAnswer returns: an error ends ChatWithRepository
\* with codes.Internal "composition failed"; a result is sent as
\* CompositionComplete.
ComposeReturn(ok) ==
    /\ spc = "compose"
    /\ cycle' = [cycle EXCEPT !.composeOk = ok]
    /\ IF ~ok
       THEN /\ Return(session, "Internal", "composition failed")
            /\ UNCHANGED events
       ELSE IF SendOk
       THEN /\ events' = Append(events, Event("CompositionComplete", 0, "", 0))
            /\ spc' = "complete"
            /\ UNCHANGED <<session, sessions, streamResult, ctxCancelled>>
       ELSE /\ Return(session, "Unavailable", "transport is closing")
            /\ UNCHANGED events
    /\ UNCHANGED <<ingestVars, inbox, budget, allowed, nextSession, cycles, lastRecv, calls>>

\* Send(Complete); handleChatMessage returns its error, nil going back to Recv.
SendComplete ==
    /\ spc = "complete"
    /\ IF SendOk
       THEN /\ events' = Append(events, Event("Complete", 0, "", 0))
            /\ spc' = "recv"
            /\ UNCHANGED <<session, sessions, streamResult, ctxCancelled>>
       ELSE /\ Return(session, "Unavailable", "transport is closing")
            /\ UNCHANGED events
    /\ UNCHANGED <<ingestVars, inbox, budget, allowed, nextSession, cycle, cycles, lastRecv,
                   calls>>

----------------------------------------------------------------------------
(* ResultMerger.deduplicateFileChunks: the chunks of one file group *)

\* Line numbers the chunks of a file start and end at.
Lines == {1, 5, 10, 16, 70}

\* Normalized scores, in hundredths.
NormScores == {20, 80}

\* hasOverlap: "within 5 lines".
Proximity == 5

\* A chunk as mergeResults hands it on: Source is set from the list it came in.
Chunks ==
    {c \in [start : Lines, end : Lines, score : NormScores, source : {"LEXICAL", "SEMANTIC"}] :
        c.start <= c.end}

\* mergeResults: the lexical chunks first, the semantic ones after them.
FileGroups ==
    {g \in UNION {[1..n -> Chunks] : n \in 0..MaxChunks} :
        \A i \in 1..Len(g), j \in 1..Len(g) :
            (i < j /\ g[i].source = "SEMANTIC") => g[j].source = "SEMANTIC"}

Orderings(n) == {f \in [1..n -> 1..n] : \A i, j \in 1..n : i # j => f[i] # f[j]}

\* The orders sort.Slice may leave a slice in under less(i, j) = StartLine[i] <
\* StartLine[j]: sort.Slice is not stable, chunks of equal StartLine come out in any
\* order.
SortedByStartLine(g) ==
    {[i \in 1..Len(g) |-> g[f[i]]] : f \in
        {f \in Orderings(Len(g)) :
            \A i \in 1..(Len(g) - 1) : g[f[i]].start <= g[f[i + 1]].start}}

\* Overlap tested on the line ranges alone.
hasOverlap_NoProximity(chunk1, chunk2) ==
    chunk1.end >= chunk2.start /\ chunk1.start <= chunk2.end

\* hasOverlap, for chunks of one FilePath.
hasOverlap(chunk1, chunk2) ==
    chunk1.end >= chunk2.start - Proximity /\ chunk1.start <= chunk2.end + Proximity

\* Merging that marks chunk1 MERGED with the higher score and leaves its range.
mergeOverlappingChunks_KeepRange(chunk1, chunk2) ==
    [start |-> chunk1.start,
     end |-> chunk1.end,
     score |-> IF chunk2.score > chunk1.score THEN chunk2.score ELSE chunk1.score,
     source |-> "MERGED"]

\* mergeOverlappingChunks: the copy of chunk1, its range expanded, the higher score,
\* Source MERGED.
mergeOverlappingChunks(chunk1, chunk2) ==
    [start |-> IF chunk2.start < chunk1.start THEN chunk2.start ELSE chunk1.start,
     end |-> IF chunk2.end > chunk1.end THEN chunk2.end ELSE chunk1.end,
     score |-> IF chunk2.score > chunk1.score THEN chunk2.score ELSE chunk1.score,
     source |-> "MERGED"]

\* deduplicateFileChunks up to its loop: a group of at most one chunk is returned
\* as it is, a longer one is sorted by StartLine.
DedupSort ==
    /\ mpc = "sort"
    /\ IF Len(mChunks) <= 1
       THEN /\ mDedup' = mChunks
            /\ mpc' = "done"
            /\ UNCHANGED <<mChunks, mIdx>>
       ELSE /\ mChunks' \in SortedByStartLine(mChunks)
            /\ mpc' = "loop"
            /\ UNCHANGED <<mDedup, mIdx>>

\* One iteration of "for _, chunk := range chunks": the chunk is merged into the
\* last entry of deduplicated it overlaps, or appended.
DedupStep ==
    /\ mpc = "loop"
    /\ mIdx < Len(mChunks)
    /\ LET chunk == mChunks[mIdx + 1]
           hits == {j \in 1..Len(mDedup) : hasOverlap(mDedup[j], chunk)}
       IN IF hits # {}
          THEN LET j == CHOOSE h \in hits : \A o \in hits : o <= h
               IN mDedup' = [mDedup EXCEPT ![j] = mergeOverlappingChunks(mDedup[j], chunk)]
          ELSE mDedup' = Append(mDedup, chunk)
    /\ mIdx' = mIdx + 1
    /\ UNCHANGED <<mChunks, mpc>>

\* return deduplicated
DedupReturn ==
    /\ mpc = "loop"
    /\ mIdx = Len(mChunks)
    /\ mpc' = "done"
    /\ UNCHANGED <<mChunks, mDedup, mIdx>>

----------------------------------------------------------------------------
(* ResultMerger.applyBoosts *)

NoBoost == [score |-> 0, start |-> 0, end |-> 0, both |-> FALSE, popular |-> FALSE,
            test |-> FALSE, main |-> FALSE, dense |-> FALSE]

\* What applyBoosts is called with: a chunk with a de-duplicated score (hundredths)
\* and a line range, and what the loops and string tests of applyBoosts find: the
\* file in both backends' results, a popular language, a test path, an entry-file
\* path, content more than 70% non-empty lines.
BoostInputs ==
    {b \in [score : 0..100, start : Lines, end : Lines, both : BOOLEAN, popular : BOOLEAN,
            test : BOOLEAN, main : BOOLEAN, dense : BOOLEAN] : b.start <= b.end}

\* The sum of the boosts and penalties, returned as it is.
applyBoosts_NoClamp(b) ==
    b.score + (IF b.both THEN 15 ELSE 0)
            + (IF b.end - b.start + 1 <= 10 THEN 5 ELSE IF b.end - b.start + 1 > 50 THEN -2 ELSE 0)
            + (IF b.popular THEN 2 ELSE 0) - (IF b.test THEN 1 ELSE 0)
            + (IF b.main THEN 2 ELSE 0) + (IF b.dense THEN 3 ELSE 0)

\* applyBoosts, in hundredths: +0.15 file in both backends, +0.05 span <= 10 lines,
\* -0.02 span > 50 lines, +0.02 popular language, -0.01 test file, +0.02 entry
\* file, +0.03 dense content; then "Ensure score stays in valid range".
applyBoosts(b) ==
    LET score == b.score + (IF b.both THEN 15 ELSE 0)
                 + (IF b.end - b.start + 1 <= 10 THEN 5
                    ELSE IF b.end - b.start + 1 > 50 THEN -2 ELSE 0)
                 + (IF b.popular THEN 2 ELSE 0) - (IF b.test THEN 1 ELSE 0)
                 + (IF b.main THEN 2 ELSE 0) + (IF b.dense THEN 3 ELSE 0)
    IN IF score > 100 THEN 100 ELSE IF score < 0 THEN 0 ELSE score

\* chunk.Score = rm.applyBoosts(chunk, fileChunks)
ApplyBoosts ==
    /\ bOut = -1
    /\ bIn # NoBoost
    /\ bOut' = applyBoosts(bIn)
    /\ UNCHANGED bIn

----------------------------------------------------------------------------
(* InlineProcessor.chunkFile: the sliding window over the lines of one file *)

\* Lengths of a run of lines.
RunLengths == {1, 9, 10, 11, 80, 90, 100}

\* A file as chunkFile has read it into lines: runs of whitespace-only (blank) and
\* other lines.
Files == UNION {[1..n -> [blank : BOOLEAN, len : RunLengths]] : n \in 0..MaxRuns}

\* ChunkOptions: the values processRepository passes (100, 10), a small window, and
\* overlaps just below a tenth of the chunk size.
OptionChoices ==
    {[size |-> 100, overlap |-> 10], [size |-> 4, overlap |-> 1],
     [size |-> 100, overlap |-> 9], [size |-> 100, overlap |-> 8]}

\* ChunkOptions of every kind a caller can pass: each chunk_size from 1 to MaxSize
\* with each chunk_overlap from 0 to one above it, and the values of processRepository.
LoopOptions ==
    [size : 1..MaxSize, overlap : 0..(MaxSize + 1)] \cup {[size |-> 100, overlap |-> 10]}

RECURSIVE FileLen(_)
\* len(lines)
FileLen(f) == IF f = <<>> THEN 0 ELSE f[Len(f)].len + FileLen(SubSeq(f, 1, Len(f) - 1))

\* strings.TrimSpace(content) == "" for the lines a..b (1-based, inclusive) of f.
WhitespaceOnly(f, a, b) ==
    \A r \in 1..Len(f) :
        f[r].blank \/ FileLen(SubSeq(f, 1, r - 1)) + 1 > b \/ FileLen(SubSeq(f, 1, r)) < a

\* The small-window test applied to every window, the first included.
TooSmall_AnyWindow(i, endIdx, chunkSize) == endIdx - i < chunkSize \div 10

\* The small-window test with a fifth of the chunk size for a tenth.
TooSmall_Fifth(i, endIdx, chunkSize) == endIdx - i < chunkSize \div 5 /\ i > 0

\* "Skip chunks that are too small (less than 10% of chunk size)".
TooSmall(i, endIdx, chunkSize) == endIdx - i < chunkSize \div 10 /\ i > 0

\* The window after i being the window at i.
NextWindow_Stay(i, opt) == i

\* The window after i, with the overlap left out of the step.
NextWindow_NoOverlap(i, opt) == i + opt.size

\* i += chunkSize - overlap
NextWindow(i, opt) == i + opt.size - opt.overlap

\* One pass of "for i := 0; i < len(lines); i += chunkSize - overlap", its loop
\* test and its increment included.
ChunkStep ==
    /\ cpc = "loop"
    /\ LET n == FileLen(cFile)
           endIdx == Min(cI + cOpt.size, n)
       IN IF ~(cI < n) \/ TooSmall(cI, endIdx, cOpt.size)
          THEN cpc' = "done" /\ UNCHANGED <<cI, cChunks>>
          ELSE IF cI < 0 \/ endIdx < cI
          THEN \* lines[i:endIdx]: "slice bounds out of range"
               cpc' = "panic" /\ UNCHANGED <<cI, cChunks>>
          ELSE IF WhitespaceOnly(cFile, cI + 1, endIdx)
          THEN /\ cI' = NextWindow(cI, cOpt)
               /\ UNCHANGED <<cChunks, cpc>>
          ELSE /\ cChunks' = Append(cChunks, [start |-> cI + 1, end |-> endIdx])
               /\ IF endIdx >= n
                  THEN cpc' = "done" /\ UNCHANGED cI
                  ELSE cI' = NextWindow(cI, cOpt) /\ UNCHANGED cpc
    /\ UNCHANGED <<cFile, cOpt>>

----------------------------------------------------------------------------
(* processRepository from EMBEDDING on, and InlineProcessor.DeleteIndex *)

\* Dimensions of the vectors of the embedding models (GetEmbeddingDimensions); a
\* vector is modelled by its dimension.
Dims == {1536, 3072}

\* What client.CreateEmbeddings answers: an error, or resp.Data.
EmbedResponses ==
    [ok : {FALSE}, vecs : {<<>>}]
        \cup [ok : {TRUE}, vecs : UNION {[1..n -> Dims] : n \in 0..(MaxEmbedChunks + 1)}]

\* The store before indexing: no collection, the work directory extraction made.
\* strict: whether the store answers the deletion of a class it does not have with an
\* error status.
NoCollection(strict) == [class |-> FALSE, vecs |-> <<>>, dir |-> TRUE, strict |-> strict]

\* len(resp.Data) != len(texts), len(embeddings) != len(chunks)
CountMatches(vecs, n) == Len(vecs) = n

\* ip.GenerateEmbeddings(ctx, chunks), then State = INDEXING and updateJobStatus.
\* The embedding client is called once; any error returns from processRepository.
GenerateEmbeddings(r) ==
    /\ epc = "embed"
    /\ IF eChunks = 0
       THEN /\ eState' = "INDEXING"
            /\ epc' = "index"
            /\ UNCHANGED <<eVecs, eErr, eCalls>>
       ELSE /\ eCalls' = eCalls + 1
            /\ IF r.ok /\ CountMatches(r.vecs, eChunks)
               THEN /\ eVecs' = r.vecs
                    /\ eState' = "INDEXING"
                    /\ epc' = "index"
                    /\ UNCHANGED eErr
               ELSE /\ eErr' = IF r.ok THEN "count" ELSE "embedding"
                    /\ epc' = "fail"
                    /\ UNCHANGED <<eVecs, eState>>
    /\ UNCHANGED <<eChunks, eStore, dCalls>>

\* ip.IndexEmbeddings(ctx, repoID, embeddedChunks), then State = READY. o is what the
\* vector store does: "ok", or an error of CreateCollection or of UpsertVectors.
IndexEmbeddings(o) ==
    /\ epc = "index"
    /\ IF Len(eVecs) = 0 \/ o = "ok"
       THEN /\ eState' = "READY"
            /\ epc' = "done"
            /\ eStore' = IF Len(eVecs) = 0 THEN eStore
                         ELSE [eStore EXCEPT !.class = TRUE, !.vecs = eVecs]
            /\ UNCHANGED eErr
       ELSE /\ eErr' = "index"
            /\ epc' = "fail"
            /\ eStore' = [eStore EXCEPT !.class = (o = "upsert")]
            /\ UNCHANGED eState
    /\ UNCHANGED <<eChunks, eVecs, eCalls, dCalls>>

\* processRepositoryAsync, processRepository having returned an error.
EmbedFail ==
    /\ epc = "fail"
    /\ eState' = "FAILED"
    /\ epc' = "done"
    /\ UNCHANGED <<eChunks, eVecs, eErr, eCalls, eStore, dCalls>>

\* WeaviateClient.DeleteCollection: the answer of ClassDeleter is passed on. A store
\* that cannot be reached answers with an error; one that can deletes a class it
\* has, and answers for a class it does not have as its version does.
DeleteCollection(store, avail) ==
    IF ~avail THEN "unavailable"
    ELSE IF store.class \/ ~store.strict THEN "ok" ELSE "error"

\* InlineProcessor.DeleteIndex: DeleteCollection, and on success os.RemoveAll of the
\* work directory (which succeeds on a directory that is gone).
DeleteIndex(avail) ==
    /\ epc = "done"
    /\ Len(dCalls) < MaxDeletes
    /\ LET res == DeleteCollection(eStore, avail)
       IN /\ dCalls' = Append(dCalls, res)
          /\ eStore' = IF res = "ok"
                       THEN [eStore EXCEPT !.class = FALSE, !.vecs = <<>>, !.dir = FALSE]
                       ELSE eStore
    /\ UNCHANGED <<eChunks, eVecs, eState, eErr, eCalls, epc>>

----------------------------------------------------------------------------
(* RedisCache: key generation helpers *)

\* Characters of tenant ids and ids: a letter, and characters the three regular
\* expressions treat differently. A string is a sequence of characters.
Chars == {"a", "-", "_", ".", "@"}

\* regexp `[^a-zA-Z0-9\-]`, ReplaceAllString(tenantID, "_")
sanitizeTenantID(tenantID) ==
    [i \in 1..Len(tenantID) |-> IF tenantID[i] \in {"a", "-"} THEN tenantID[i] ELSE "_"]

\* regexp `[^a-zA-Z0-9\-_]`, ReplaceAllString(id, "_")
sanitizeID(id) ==
    [i \in 1..Len(id) |-> IF id[i] \in {"a", "-", "_"} THEN id[i] ELSE "_"]

\* regexp `[^a-zA-Z0-9\-_/@\.]`, ReplaceAllString(repoKey, "_")
sanitizeRepoKey(repoKey) ==
    [i \in 1..Len(repoKey) |-> IF repoKey[i] \in {"a", "-", "_", "/", "@", "."} THEN repoKey[i]
                                ELSE "_"]

\* fmt.Sprintf("repo_idx:%s:%s", ...)
repositoryKey(tenantID, repoKey) ==
    <<"repo_idx", ":">> \o sanitizeTenantID(tenantID) \o <<":">> \o sanitizeRepoKey(repoKey)

\* fmt.Sprintf("upload_status:%s:%s", ...)
uploadStatusKey(tenantID, uploadID) ==
    <<"upload_status", ":">> \o sanitizeTenantID(tenantID) \o <<":">> \o sanitizeID(uploadID)

\* fmt.Sprintf("ctx_res:%s:%s|%s|k:%d", ...), for one query (its hash "h") and topK 10.
queryResultKey(tenantID, repoID) ==
    <<"ctx_res", ":">> \o sanitizeTenantID(tenantID) \o <<":">> \o sanitizeID(repoID)
        \o <<"|", "h", "|", "k", ":", "10">>

\* fmt.Sprintf("repo_meta:%s:%s", ...)
repositoryMetadataKey(tenantID, repoID) ==
    <<"repo_meta", ":">> \o sanitizeTenantID(tenantID) \o <<":">> \o sanitizeID(repoID)

\* The four keys of a tenant and an id.
KeysOf(tenantID, id) ==
    {repositoryKey(tenantID, id), uploadStatusKey(tenantID, id),
     queryResultKey(tenantID, id), repositoryMetadataKey(tenantID, id)}

\* The cache operations of two callers, each building its keys.
BuildKeys ==
    /\ kKeys = <<>>
    /\ kKeys' = <<KeysOf(kIn.t1, kIn.id1), KeysOf(kIn.t2, kIn.id2)>>
    /\ UNCHANGED kIn

----------------------------------------------------------------------------
(* UploadServer.UploadRepository (client streaming) and handleFileUpload *)

\* config.Upload.MaxFileSize, and the sizes of the chunks a client sends, in units
\* that put one chunk size below the limit and one above.
UploadLimit == 2
ChunkBytes == {1, 3}

\* A call the server has not begun to handle. total: bytes written to the temp file;
\* parts: messages with file data received; existing: the repository id the
\* idempotency check found (0 = none); code, repo: the response.
NoUpload == [pc |-> "recv", total |-> 0, parts |-> 0, existing |-> 0, code |-> "", repo |-> 0]

\* The first Recv, generateRepositoryID (call h gets id h), the idempotency check, and
\* for a call that finds nothing the first chunk of handleFileUpload, which is written
\* with no test of the size.
UploadFirst(h, size, final) ==
    /\ ups[h].pc = "recv"
    /\ IF uStatus # 0
       THEN ups' = [ups EXCEPT ![h] = [@ EXCEPT !.pc = "done", !.existing = uStatus,
                                                !.code = "OK", !.repo = uStatus]]
       ELSE ups' = [ups EXCEPT ![h] = [@ EXCEPT !.pc = IF final THEN "create" ELSE "chunks",
                                                !.total = size, !.parts = 1]]
    /\ UNCHANGED <<uStatus, uStarted>>

\* The size test, as handleFileUpload makes it after each later chunk.
TooLarge(total) == total > UploadLimit

\* One pass of the receive loop of handleFileUpload; its error becomes
\* codes.Internal "file upload failed" in UploadRepository.
UploadChunk(h, size, final) ==
    /\ ups[h].pc = "chunks"
    /\ ups[h].parts < MaxParts
    /\ LET total == ups[h].total + size
       IN ups' = [ups EXCEPT ![h] = [@ EXCEPT !.total = total, !.parts = @ + 1,
                     !.pc = IF TooLarge(total) THEN "done" ELSE IF final THEN "create" ELSE "chunks",
                     !.code = IF TooLarge(total) THEN "Internal" ELSE ""]]
    /\ UNCHANGED <<uStatus, uStarted>>

\* stream.Recv returns io.EOF: the client has closed the stream.
UploadEOF(h) ==
    /\ ups[h].pc = "chunks"
    /\ ups' = [ups EXCEPT ![h].pc = "create"]
    /\ UNCHANGED <<uStatus, uStarted>>

\* CreateRepositoryIndex and the response: the PENDING status is written under the
\* key (ok: the write succeeds), the pipeline goroutine is started.
UploadCreate(h, ok) ==
    /\ ups[h].pc = "create"
    /\ ups' = [ups EXCEPT ![h] = [@ EXCEPT !.pc = "done", !.code = IF ok THEN "OK" ELSE "Internal",
                                           !.repo = IF ok THEN h ELSE 0]]
    /\ uStatus' = IF ok THEN h ELSE uStatus
    /\ uStarted' = IF ok THEN uStarted \cup {h} ELSE uStarted

----------------------------------------------------------------------------
(* RepositoryServer.ListRepositories *)

\* page_size values a client sends: unset, small ones, one above the maximum.
PageSizes == {0, 1, 2, 101}

\* "if pageSize <= 0 || pageSize > 100 { pageSize = 20 }"
EffectivePageSize(pageSize) == IF pageSize <= 0 \/ pageSize > 100 THEN 20 ELSE pageSize

\* startIdx: the page token is not parsed ("we'll just skip this complex logic").
StartIdx(pageToken) == 0

\* One call, the client passing back the token it holds. order is the order in which
\* KEYS repo_meta:{tenant}:* returns the keys of the repositories 1..n.
ListRepositories(order) ==
    /\ Len(lPages) < MaxPages
    /\ Len(lPages) > 0 => lToken # ""
    /\ LET n == lIn.n
           startIdx == StartIdx(lToken)
           endIdx == Min(startIdx + EffectivePageSize(lIn.pageSize), n)
       IN /\ lPages' = Append(lPages, IF startIdx < n THEN SubSeq(order, startIdx + 1, endIdx)
                                                     ELSE <<>>)
          /\ lToken' = IF endIdx < n THEN "next" ELSE ""
    /\ UNCHANGED lIn

----------------------------------------------------------------------------
(* ResultMerger.MergeAndRank from the sort on, and the cut of performDualSearch *)

\* Scores applyBoosts has given the chunks (hundredths), in the order of `final`.
RankInputs ==
    [scores : UNION {[1..n -> {20, 55, 80}] : n \in 0..(2 * MaxBackendHits)},
     rmMax : {2, 20}, maxResults : MaxResultsChoices]

\* sort.Slice with final[i].Score > final[j].Score, then the cut to rm.maxResults.
\* The sort is not stable: order is any arrangement that puts the scores in
\* descending order.
MergeAndRank(order) ==
    /\ rpc = "rank"
    /\ \A i, j \in 1..Len(rIn.scores) : i < j => rIn.scores[order[i]] >= rIn.scores[order[j]]
    /\ rOut' = [i \in 1..Min(rIn.rmMax, Len(rIn.scores)) |-> rIn.scores[order[i]]]
    /\ rpc' = "take"
    /\ UNCHANGED rIn

\* The merged list returned whole.
TakeTop_All(chunks, limit) == chunks

\* mergedResults.Chunks[:maxResults], maxResults the smaller of limit and the length.
TakeTop(chunks, limit) == SubSeq(chunks, 1, Min(limit, Len(chunks)))

\* The end of performDualSearch, called with limit = getTopK(session.Options).
DualSearchReturn ==
    /\ rpc = "take"
    /\ rOut' = TakeTop(rOut, getTopK([maxResults |-> rIn.maxResults]))
    /\ rpc' = "done"
    /\ UNCHANGED rIn

----------------------------------------------------------------------------
(* RateLimitInterceptor: the limiter of one tenant *)

\* A request that has not entered checkRateLimit. absent, seen and got are history:
\* whether the first read found no entry, and how many entries had been deleted
\* when getLimiter was entered and when it returned.
NoRequest ==
    [pc |-> "idle", limiter |-> 0, absent |-> FALSE, seen |-> 0, got |-> 0,
     left |-> MaxRequests, code |-> ""]

\* getLimiter up to RUnlock: the read of r.limiters[tenantID] under the read lock,
\* and the return of the limiter found.
GetLimiterRead(c) ==
    /\ reqs[c].pc = "idle"
    /\ reqs[c].left > 0
    /\ reqs' = [reqs EXCEPT ![c].pc = IF limiters # 0 THEN "allow" ELSE "lock",
                            ![c].limiter = limiters,
                            ![c].absent = (limiters = 0),
                            ![c].seen = reaped,
                            ![c].got = reaped,
                            ![c].code = ""]
    /\ UNCHANGED <<limiters, buckets, reaped, sleepers>>

\* The write-locked section without its second look at the map.
GetLimiterCreate_NoDoubleCheck(c) ==
    /\ reqs[c].pc = "lock"
    /\ buckets' = Append(buckets, BurstSize)
    /\ limiters' = Len(buckets) + 1
    /\ sleepers' = sleepers + 1
    /\ reqs' = [reqs EXCEPT ![c].pc = "allow", ![c].limiter = Len(buckets) + 1,
                            ![c].got = reaped]
    /\ UNCHANGED reaped

\* getLimiter from r.mutex.Lock() to the deferred Unlock: the second look at the map,
\* rate.NewLimiter, the store and the start of the cleanup goroutine.
GetLimiterCreate(c) ==
    /\ reqs[c].pc = "lock"
    /\ IF limiters # 0
       THEN /\ reqs' = [reqs EXCEPT ![c].pc = "allow", ![c].limiter = limiters,
                                    ![c].got = reaped]
            /\ UNCHANGED <<limiters, buckets, sleepers>>
       ELSE /\ buckets' = Append(buckets, BurstSize)
            /\ limiters' = Len(buckets) + 1
            /\ sleepers' = sleepers + 1
            /\ reqs' = [reqs EXCEPT ![c].pc = "allow", ![c].limiter = Len(buckets) + 1,
                                    ![c].got = reaped]
    /\ UNCHANGED reaped

\* checkRateLimit after getLimiter: limiter.Allow() takes a token of the limiter the
\* request holds, or the request is refused.
Allow(c) ==
    /\ reqs[c].pc = "allow"
    /\ IF buckets[reqs[c].limiter] > 0
       THEN /\ buckets' = [buckets EXCEPT ![reqs[c].limiter] = @ - 1]
            /\ reqs' = [reqs EXCEPT ![c].pc = "idle", ![c].left = @ - 1]
       ELSE /\ reqs' = [reqs EXCEPT ![c].pc = "idle", ![c].left = @ - 1,
                                    ![c].code = "ResourceExhausted"]
            /\ UNCHANGED buckets
    /\ UNCHANGED <<limiters, reaped, sleepers>>

\* Time passes: a limiter regains a token, up to its burst size.
Refill(l) ==
    /\ buckets[l] < BurstSize
    /\ buckets' = [buckets EXCEPT ![l] = @ + 1]
    /\ UNCHANGED <<limiters, reaped, sleepers, reqs>>

\* cleanupLimiter after its sleep: delete(r.limiters, tenantID) under the write lock.
cleanupLimiter ==
    /\ sleepers > 0
    /\ sleepers' = sleepers - 1
    /\ limiters' = 0
    /\ reaped' = reaped + 1
    /\ UNCHANGED <<buckets, reqs>>

----------------------------------------------------------------------------
(* ChatWebSocketHandler: the WebSocket-to-gRPC bridge of one connection *)

\* The client writes a message on the WebSocket: one with a start, chat_message or
\* cancel field ("known"), or one with none of them.
ClientWrite(kind) ==
    /\ wsConn.connected
    /\ wsConn.sent < MaxMsgs
    /\ Len(wsConn.inbox) < MaxInbox
    /\ wsConn' = [wsConn EXCEPT !.inbox = Append(@, kind), !.sent = @ + 1]
    /\ UNCHANGED <<grpcStream, bridge, connections>>

\* The WebSocket client disconnects.
ClientDisconnect ==
    /\ wsConn.connected
    /\ wsConn' = [wsConn EXCEPT !.connected = FALSE]
    /\ UNCHANGED <<grpcStream, bridge, connections>>

\* The chat server sends a response on the stream.
ServerRespond ==
    /\ grpcStream.state = "open"
    /\ grpcStream.out < MaxEvents
    /\ grpcStream' = [grpcStream EXCEPT !.out = @ + 1]
    /\ UNCHANGED <<wsConn, bridge, connections>>

\* ChatWithRepository returns on the server: the stream completes or fails.
ServerEnd ==
    /\ grpcStream.state = "open"
    /\ grpcStream' = [grpcStream EXCEPT !.state = "ended"]
    /\ UNCHANGED <<wsConn, bridge, connections>>

\* One round of the loop of webSocketToGRPC: ReadJSON, the conversion, and
\* grpcStream.Send. A read or send error makes the function return, into its
\* deferred done <- true.
WebSocketToGRPC ==
    /\ bridge.w = "read"
    /\ IF wsConn.inbox # <<>>
       THEN /\ wsConn' = [wsConn EXCEPT !.inbox = Tail(@)]
            /\ bridge' = [bridge EXCEPT !.w =
                   IF Head(wsConn.inbox) = "known"
                      /\ (grpcStream.state = "ended" \/ grpcStream.ctxDone)
                   THEN "done" ELSE "read"]
       ELSE /\ ~wsConn.connected
            /\ bridge' = [bridge EXCEPT !.w = "done"]
            /\ UNCHANGED wsConn
    /\ UNCHANGED <<grpcStream, connections>>

\* The select of grpcToWebSocket: <-done when webSocketToGRPC is sending on the
\* unbuffered channel (which lets that send, and so webSocketToGRPC, return), else
\* the default branch.
GrpcSelect ==
    /\ bridge.g = "select"
    /\ bridge' = IF bridge.w = "done"
                 THEN [bridge EXCEPT !.w = "returned", !.g = "done"]
                 ELSE [bridge EXCEPT !.g = "recv"]
    /\ UNCHANGED <<wsConn, grpcStream, connections>>

\* grpcStream.Recv(): a response, or an error once the stream has ended or its
\* context is cancelled; it blocks otherwise.
GrpcRecv ==
    /\ bridge.g = "recv"
    /\ IF grpcStream.out > 0
       THEN /\ grpcStream' = [grpcStream EXCEPT !.out = @ - 1]
            /\ bridge' = [bridge EXCEPT !.g = "write"]
       ELSE /\ grpcStream.state = "ended" \/ grpcStream.ctxDone
            /\ bridge' = [bridge EXCEPT !.g = "done"]
            /\ UNCHANGED grpcStream
    /\ UNCHANGED <<wsConn, connections>>

\* wsConn.WriteJSON(wsResp): it succeeds on a connection that is up, fails on a
\* closed one, and may do either after the client has gone.
GrpcWrite(ok) ==
    /\ bridge.g = "write"
    /\ ok => ~wsConn.closed
    /\ ~ok => (wsConn.closed \/ ~wsConn.connected)
    /\ bridge' = [bridge EXCEPT !.g = IF ok THEN "select" ELSE "done"]
    /\ UNCHANGED <<wsConn, grpcStream, connections>>

\* webSocketToGRPC has returned: handleConnection returns (cancel, grpcConn.Close)
\* and the deferred function of HandleWebSocket removes and closes the connection.
HandleWebSocketReturn ==
    /\ bridge.w = "returned"
    /\ bridge.h = "running"
    /\ bridge' = [bridge EXCEPT !.h = "returned"]
    /\ grpcStream' = [grpcStream EXCEPT !.ctxDone = TRUE]
    /\ connections' = connections \ {1}
    /\ wsConn' = [wsConn EXCEPT !.closed = TRUE]

\* A step of one of the goroutines of the bridge. There is none for a goroutine at
\* "done" other than the receive in GrpcSelect: done <- true blocks until a receive.
BridgeStep ==
    \/ WebSocketToGRPC
    \/ GrpcSelect
    \/ GrpcRecv
    \/ \E ok \in BOOLEAN : GrpcWrite(ok)
    \/ HandleWebSocketReturn

----------------------------------------------------------------------------
(* DeepSeekClient.ComposeAnswerStream, called for a session with stream_tokens *)

\* A content delta is a string, here a sequence of characters; "" is <<>>.
Deltas == {<<>>, <<1>>, <<2>>}

\* The responses of the LLM: the content deltas of its events, in order.
Responses == UNION {[1..n -> Deltas] : n \in 0..(MaxTokens + 1)}

RECURSIVE FullResponse(_)
\* fullResponse: the deltas written to the strings.Builder one after the other.
FullResponse(ds) ==
    IF ds = <<>> THEN <<>> ELSE ds[1] \o FullResponse(Tail(ds))

\* The fallback of ComposeAnswerStream when d.config.StreamTokens is off:
\* ComposeAnswer reads the whole response, then callback(result.FullResponse).
ComposeFallback(ok) ==
    /\ llm.pc = "call"
    /\ ~llm.stream
    /\ llm' = [llm EXCEPT !.read = IF ok THEN Len(llm.deltas) ELSE @,
                          !.pc = IF ok THEN "done" ELSE "failed"]
    /\ tokens' = IF ok THEN Append(tokens, FullResponse(llm.deltas)) ELSE tokens

\* A round of the scanner loop that reads an event and keeps the delta to itself.
StreamRead_NoCallback(ok) ==
    /\ llm.pc = "call"
    /\ llm.stream
    /\ llm.read < Len(llm.deltas)
    /\ ok
    /\ llm' = [llm EXCEPT !.read = @ + 1]
    /\ UNCHANGED tokens

\* One round of the scanner loop of makeStreamingAPICall that reads an event: an
\* empty delta is skipped, any other is handed to callback, which sends it as a
\* CompositionToken; a callback error ends the call.
StreamRead(ok) ==
    /\ llm.pc = "call"
    /\ llm.stream
    /\ llm.read < Len(llm.deltas)
    /\ ~ok => llm.deltas[llm.read + 1] # <<>>
    /\ IF ~ok
       THEN /\ llm' = [llm EXCEPT !.pc = "failed"]
            /\ UNCHANGED tokens
       ELSE /\ llm' = [llm EXCEPT !.read = @ + 1]
            /\ tokens' = IF llm.deltas[llm.read + 1] = <<>> THEN tokens
                         ELSE Append(tokens, llm.deltas[llm.read + 1])

\* The end of the scanner loop: [DONE] or the end of the body after the last event,
\* or a read error at any point.
StreamEnd(ok) ==
    /\ llm.pc = "call"
    /\ llm.stream
    /\ ok => llm.read = Len(llm.deltas)
    /\ llm' = [llm EXCEPT !.pc = IF ok THEN "done" ELSE "failed"]
    /\ UNCHANGED tokens

----------------------------------------------------------------------------
(* The vector-store collection of one repository: toWeaviateClassName and its callers *)

\* Repository ids, as strings of characters: "repo-" + digits as generateRepositoryID
\* makes them, and ids of other shapes a caller may pass.
RepositoryIDs ==
    {p \o b : p \in {<<>>, <<"r", "e", "p", "o", "-">>},
              b \in UNION {[1..n -> {"1", "-", "r"}] : n \in 1..MaxIdLen}}

\* "Repo" + strings.ReplaceAll(strings.TrimPrefix(repoID, "repo-"), "-", "")
toWeaviateClassName(repoID) ==
    LET prefix == <<"r", "e", "p", "o", "-">>
        trimmed == IF Len(repoID) >= Len(prefix) /\ SubSeq(repoID, 1, Len(prefix)) = prefix
                   THEN SubSeq(repoID, Len(prefix) + 1, Len(repoID))
                   ELSE repoID
    IN <<"R", "e", "p", "o">> \o SelectSeq(trimmed, LAMBDA c : c # "-")

\* IndexEmbeddings: CreateCollection and UpsertVectors, both with className.
IndexCollection ==
    /\ wv.class = <<>>
    /\ wv' = [wv EXCEPT !.class = toWeaviateClassName(wv.repoID),
                        !.used = @ \cup {<<"create", toWeaviateClassName(wv.repoID)>>,
                                         <<"upsert", toWeaviateClassName(wv.repoID)>>}]

\* SearchSemantic: the Get query names the class; the response holds the objects
\* found under the name of the class queried, and parseSearchResults reads
\* data[repoID]. A key that is not in the response is "No results found"; a query
\* for a class that does not exist is an error (hits stays as it was).
SearchSemantic(n) ==
    /\ wv.hits = -1
    /\ LET queried == toWeaviateClassName(wv.repoID)
       IN IF wv.class = queried
          THEN wv' = [wv EXCEPT !.used = @ \cup {<<"query", queried>>, <<"parse", wv.repoID>>},
                                !.hits = IF wv.repoID = queried THEN n ELSE 0]
          ELSE wv' = [wv EXCEPT !.used = @ \cup {<<"query", queried>>}]

\* DeleteIndex: DeleteCollection(ctx, toWeaviateClassName(repoID)).
DeleteIndexCollection ==
    /\ wv.class # <<>>
    /\ wv' = [wv EXCEPT !.used = @ \cup {<<"delete", toWeaviateClassName(wv.repoID)>>},
                        !.class = IF @ = toWeaviateClassName(wv.repoID) THEN <<>> ELSE @]

----------------------------------------------------------------------------
(* RepositoryServer.DeleteRepository, beside the pipeline of the repository *)

\* updateJobStatus with SetUploadStatus returning an error: the store keeps what it
\* held, the error is dropped, and the goroutine goes on as after a write that
\* succeeded.
PipelinePublishLost(j) ==
    /\ j \in Submitted
    /\ jobs[j].ppc = "publish"
    /\ SetUploadStatus(JobKey(j), CachedStatus(j), FALSE)
    /\ jobs' = [jobs EXCEPT ![j].ppc = AfterPublish(jobs[j].state)]
    /\ UNCHANGED <<repoMeta, repoIdx, nextJob, resp, chatVars>>

\* A step of the handler or the goroutine of job j.
PipelineRun(j) ==
    \/ \E ok \in BOOLEAN : UploadStoreMetadata(j, ok)
    \/ PipelineSetState(j)
    \/ PipelinePublish(j)
    \/ PipelinePublishLost(j)
    \/ \E ok \in BOOLEAN : PipelineStage(j, ok)
    \/ \E ok \in BOOLEAN : PipelineStoreMetadata(j, ok)
    \/ \E ok \in BOOLEAN : PipelineSetRouting(j, ok)
    \/ PipelineFail(j)

\* DeleteRepository for a repository whose repo_meta key exists (an absent one is
\* NotFound and changes nothing). o = "fail": GetRepositoryMetadata, DeleteIndex or
\* DeleteRepositoryMetadata returns an error, Internal, the keys as they were;
\* o = "routing": the metadata is deleted and DeleteRepositoryIndex fails, its error
\* dropped; o = "ok": both keys are deleted. The routing key is built from the
\* Source of the metadata read, the source of the repository's job.
DeleteRepository(t, r, o) ==
    /\ repoMeta[<<t, r>>] # NoMeta
    /\ IF o = "fail"
       THEN /\ life' = [life EXCEPT !.code = "Internal"]
            /\ UNCHANGED <<repoMeta, repoIdx>>
       ELSE /\ repoMeta' = [repoMeta EXCEPT ![<<t, r>>] = NoMeta]
            /\ repoIdx' = IF o = "ok" THEN [repoIdx EXCEPT ![<<t, jobs[r].url>>] = NoRoute]
                                      ELSE repoIdx
            /\ life' = [deleted |-> life.deleted \cup {<<t, r>>}, code |-> "OK"]
    /\ UNCHANGED <<uploadStatus, jobs, nextJob, resp, published, chatVars>>

----------------------------------------------------------------------------
(* Specifications *)

InitIngest ==
    /\ uploadStatus = [k \in UploadKeys |-> NoStatus]
    /\ repoIdx = [k \in RoutingKeys |-> NoRoute]
    /\ jobs = [j \in 1..MaxJobs |-> NoJob]
    /\ nextJob = 1
    /\ resp = [j \in 1..MaxJobs |-> NoResp]
    /\ published = [j \in 1..MaxJobs |-> NoPublished]

InitChat ==
    /\ inbox = <<>>
    /\ spc = "recv"
    /\ session = NoSession
    /\ sessions = {}
    /\ nextSession = 1
    /\ ctxCancelled = [stream |-> FALSE, sessions |-> {}]
    /\ cycle = NoCycle
    /\ events = <<>>
    /\ cycles = 0
    /\ streamResult = Running
    /\ lastRecv = ""
    /\ calls = 0

\* The library functions not being called, but for the one named.
IdleExcept(lib) ==
    /\ IF lib = "merge" THEN TRUE
       ELSE mChunks = <<>> /\ mDedup = <<>> /\ mIdx = 0 /\ mpc = "idle"
    /\ IF lib = "boost" THEN TRUE
       ELSE bIn = NoBoost /\ bOut = -1
    /\ IF lib = "chunk" THEN TRUE
       ELSE cFile = <<>> /\ cOpt = [size |-> 0, overlap |-> 0] /\ cI = 0 /\ cChunks = <<>>
            /\ cpc = "idle"
    /\ IF lib = "index" THEN TRUE
       ELSE eChunks = 0 /\ eVecs = <<>> /\ eState = "ABSENT" /\ eErr = "" /\ eCalls = 0
            /\ eStore = NoCollection(FALSE) /\ dCalls = <<>> /\ epc = "idle"
    /\ IF lib = "keys" THEN TRUE
       ELSE kIn = [t1 |-> <<>>, t2 |-> <<>>, id1 |-> <<>>, id2 |-> <<>>] /\ kKeys = <<>>
    /\ IF lib = "upload" THEN TRUE
       ELSE ups = <<>> /\ uStatus = 0 /\ uStarted = {}
    /\ IF lib = "list" THEN TRUE
       ELSE lIn = [n |-> 0, pageSize |-> 0] /\ lToken = "" /\ lPages = <<>>
    /\ IF lib = "rank" THEN TRUE
       ELSE rIn = [scores |-> <<>>, rmMax |-> 0, maxResults |-> 0] /\ rOut = <<>> /\ rpc = "idle"
    /\ IF lib = "rate" THEN TRUE
       ELSE limiters = 0 /\ buckets = <<>> /\ reaped = 0 /\ sleepers = 0 /\ reqs = <<>>
    /\ IF lib = "bridge" THEN TRUE
       ELSE wsConn = [connected |-> FALSE, inbox |-> <<>>, sent |-> 0, closed |-> FALSE] /\ grpcStream = [state |-> "idle", out |-> 0, ctxDone |-> FALSE] /\ bridge = [w |-> "idle", g |-> "idle", h |-> "idle"] /\ connections = {}
    /\ IF lib = "llm" THEN TRUE
       ELSE llm = [stream |-> FALSE, deltas |-> <<>>, read |-> 0, pc |-> "idle"] /\ tokens = <<>>
    /\ IF lib = "names" THEN TRUE
       ELSE wv = [repoID |-> <<>>, class |-> <<>>, used |-> {}, hits |-> -1]
    /\ IF lib = "life" THEN TRUE
       ELSE life = [deleted |-> {}, code |-> ""]

\* A call of a library function leaves the other functions alone,
LibFrame(lib) ==
    /\ IF lib = "merge" THEN TRUE ELSE UNCHANGED <<mChunks, mDedup, mIdx, mpc>>
    /\ IF lib = "boost" THEN TRUE ELSE UNCHANGED <<bIn, bOut>>
    /\ IF lib = "chunk" THEN TRUE ELSE UNCHANGED <<cFile, cOpt, cI, cChunks, cpc>>
    /\ IF lib = "index" THEN TRUE
       ELSE UNCHANGED <<eChunks, eVecs, eState, eErr, eCalls, eStore, dCalls, epc>>
    /\ IF lib = "keys" THEN TRUE ELSE UNCHANGED <<kIn, kKeys>>
    /\ IF lib = "upload" THEN TRUE ELSE UNCHANGED <<ups, uStatus, uStarted>>
    /\ IF lib = "list" THEN TRUE ELSE UNCHANGED <<lIn, lToken, lPages>>
    /\ IF lib = "rank" THEN TRUE ELSE UNCHANGED <<rIn, rOut, rpc>>
    /\ IF lib = "rate" THEN TRUE ELSE UNCHANGED <<limiters, buckets, reaped, sleepers, reqs>>
    /\ IF lib = "bridge" THEN TRUE ELSE UNCHANGED <<wsConn, grpcStream, bridge, connections>>
    /\ IF lib = "llm" THEN TRUE ELSE UNCHANGED <<llm, tokens>>
    /\ IF lib = "names" THEN TRUE ELSE UNCHANGED <<wv>>
    /\ IF lib = "life" THEN TRUE ELSE UNCHANGED <<life>>

\* and the service too.
Frame(lib) ==
    /\ UNCHANGED <<ingestVars, chatVars>>
    /\ LibFrame(lib)

\* The service with no upload submitted and no chat stream in use.
ServiceIdle ==
    /\ InitIngest
    /\ repoMeta = [k \in MetaKeys |-> NoMeta]
    /\ InitChat
    /\ allowed = {}
    /\ budget = 0

\* The service after construction; the chat client of this specification sends one
\* Start.
Init ==
    /\ InitIngest
    /\ repoMeta = [k \in MetaKeys |-> NoMeta]
    /\ InitChat
    /\ allowed = {m \in StartMessages : ~m.streamTokens /\ m.maxResults = 0}
    /\ budget = 1
    /\ IdleExcept("")

Next ==
    /\ UNCHANGED libVars
    /\ \/ UploadRejected
       \/ \E t \in Tenants, k \in IdemKeys, u \in Urls, ok \in BOOLEAN : UploadGitRepository(t, k, u, ok)
       \/ \E j \in RepoIds : CallerCancel(j)
       \/ \E j \in RepoIds, ok \in BOOLEAN : UploadStoreMetadata(j, ok)
       \/ \E j \in RepoIds : PipelineSetState(j)
       \/ \E j \in RepoIds : PipelinePublish(j)
       \/ \E j \in RepoIds, ok \in BOOLEAN : PipelineStage(j, ok)
       \/ \E j \in RepoIds, ok \in BOOLEAN : PipelineStoreMetadata(j, ok)
       \/ \E j \in RepoIds, ok \in BOOLEAN : PipelineSetRouting(j, ok)
       \/ \E j \in RepoIds : PipelineFail(j)
       \/ \E t \in Tenants, r \in RepoIds : GetRepository(t, r)
       \/ \E m \in Messages : ClientSend(m)
       \/ \E ok \in BOOLEAN : RecvStart(ok)

Spec == Init /\ [][Next]_vars

\* A chat stream in full. Ingestion is quiescent; repo_meta of repository 1 holds
\* any of the values ingestion leaves there.
ChatInit ==
    /\ InitIngest
    /\ \E v \in States \cup {NoMeta} :
          repoMeta = [k \in MetaKeys |-> IF k[2] = 1 THEN v ELSE NoMeta]
    /\ InitChat
    /\ allowed = Messages
    /\ budget = MaxMsgs
    /\ IdleExcept("")

ChatNext ==
    /\ UNCHANGED libVars
    /\ \/ \E m \in Messages : ClientSend(m)
       \/ ClientAbort
       \/ RecvError
       \/ \E ok \in BOOLEAN : RecvStart(ok)
       \/ RecvChatMessage
       \/ RecvCancel
       \/ RecvUnknown
       \/ \E lex \in BackendResults, embOk \in BOOLEAN, sem \in BackendResults,
             merged \in 0..(2 * MaxBackendHits) : SearchReturn(lex, embOk, sem, merged)
       \/ SendEarlyHit
       \/ SendFinalHit
       \/ SendCompositionStarted
       \/ ComposeToken
       \/ \E ok \in BOOLEAN : ComposeReturn(ok)
       \/ SendComplete

ChatSpec == ChatInit /\ [][ChatNext]_vars

\* deduplicateFileChunks called on every file group the two backends can produce.
MergeInit ==
    /\ ServiceIdle
    /\ IdleExcept("merge")
    /\ mChunks \in FileGroups
    /\ mDedup = <<>>
    /\ mIdx = 0
    /\ mpc = "sort"

MergeNext ==
    /\ Frame("merge")
    /\ \/ DedupSort
       \/ DedupStep
       \/ DedupReturn

MergeSpec == MergeInit /\ [][MergeNext]_vars

\* applyBoosts called on every input.
BoostInit ==
    /\ ServiceIdle
    /\ IdleExcept("boost")
    /\ bIn \in BoostInputs
    /\ bOut = -1

BoostNext == Frame("boost") /\ ApplyBoosts

BoostSpec == BoostInit /\ [][BoostNext]_vars

\* chunkFile called on every file, with each of the options.
ChunkInit ==
    /\ ServiceIdle
    /\ IdleExcept("chunk")
    /\ cFile \in Files
    /\ cOpt \in OptionChoices
    /\ cI = 0
    /\ cChunks = <<>>
    /\ cpc = "loop"

ChunkNext == Frame("chunk") /\ ChunkStep

ChunkSpec == ChunkInit /\ [][ChunkNext]_vars

\* One job at EMBEDDING, with every number of chunks, against either kind of store;
\* DeleteIndex is called once the job has ended.
IndexInit ==
    /\ ServiceIdle
    /\ IdleExcept("index")
    /\ eChunks \in 0..MaxEmbedChunks
    /\ eVecs = <<>>
    /\ eState = "EMBEDDING"
    /\ eErr = ""
    /\ eCalls = 0
    /\ eStore \in {NoCollection(strict) : strict \in BOOLEAN}
    /\ dCalls = <<>>
    /\ epc = "embed"

IndexNext ==
    /\ Frame("index")
    /\ \/ \E r \in EmbedResponses : GenerateEmbeddings(r)
       \/ \E o \in {"ok", "create", "upsert"} : IndexEmbeddings(o)
       \/ EmbedFail
       \/ \E avail \in BOOLEAN : DeleteIndex(avail)

IndexSpec == IndexInit /\ [][IndexNext]_vars

\* Keys built for every two non-empty tenant ids and every two one-character ids.
KeyInit ==
    /\ ServiceIdle
    /\ IdleExcept("keys")
    /\ kIn \in [t1 : UNION {[1..n -> Chars] : n \in 1..MaxTenantLen},
                t2 : UNION {[1..n -> Chars] : n \in 1..MaxTenantLen},
                id1 : [1..1 -> Chars], id2 : [1..1 -> Chars]]
    /\ kKeys = <<>>

KeyNext == Frame("keys") /\ BuildKeys

KeySpec == KeyInit /\ [][KeyNext]_vars

\* File uploads with one (tenant, idempotency_key), handled concurrently.
UploadInit ==
    /\ ServiceIdle
    /\ IdleExcept("upload")
    /\ ups = [h \in 1..MaxUploads |-> NoUpload]
    /\ uStatus = 0
    /\ uStarted = {}

UploadNext ==
    /\ Frame("upload")
    /\ \/ \E h \in 1..MaxUploads, size \in ChunkBytes, final \in BOOLEAN : UploadFirst(h, size, final)
       \/ \E h \in 1..MaxUploads, size \in ChunkBytes, final \in BOOLEAN : UploadChunk(h, size, final)
       \/ \E h \in 1..MaxUploads : UploadEOF(h)
       \/ \E h \in 1..MaxUploads, ok \in BOOLEAN : UploadCreate(h, ok)

UploadSpec == UploadInit /\ [][UploadNext]_vars

\* A client walking the pages of a tenant's repositories, from an empty page_token.
ListInit ==
    /\ ServiceIdle
    /\ IdleExcept("list")
    /\ lIn \in [n : 0..MaxRepos, pageSize : PageSizes]
    /\ lToken = ""
    /\ lPages = <<>>

ListNext == Frame("list") /\ \E order \in Orderings(lIn.n) : ListRepositories(order)

ListSpec == ListInit /\ [][ListNext]_vars

\* The ranking of every list of up to 2 * MaxBackendHits scores, under both values of
\* rm.maxResults and of the session's max_results.
RankInit ==
    /\ ServiceIdle
    /\ IdleExcept("rank")
    /\ rIn \in RankInputs
    /\ rOut = <<>>
    /\ rpc = "rank"

RankNext ==
    /\ Frame("rank")
    /\ \/ \E order \in Orderings(Len(rIn.scores)) : MergeAndRank(order)
       \/ DualSearchReturn

RankSpec == RankInit /\ [][RankNext]_vars


\* MaxCallers requests of one tenant at a time, against an interceptor just built.
RateInit ==
    /\ ServiceIdle
    /\ IdleExcept("rate")
    /\ limiters = 0
    /\ buckets = <<>>
    /\ reaped = 0
    /\ sleepers = 0
    /\ reqs = [c \in 1..MaxCallers |-> NoRequest]

RateNext ==
    /\ Frame("rate")
    /\ \/ \E c \in 1..MaxCallers : GetLimiterRead(c)
       \/ \E c \in 1..MaxCallers : GetLimiterCreate(c)
       \/ \E c \in 1..MaxCallers : Allow(c)
       \/ \E l \in 1..Len(buckets) : Refill(l)
       \/ cleanupLimiter

RateSpec == RateInit /\ [][RateNext]_vars

\* One WebSocket connection, upgraded and registered, its gRPC stream created and
\* both goroutines of the bridge started. Every goroutine that can take a step
\* eventually takes one.
BridgeInit ==
    /\ ServiceIdle
    /\ IdleExcept("bridge")
    /\ wsConn = [connected |-> TRUE, inbox |-> <<>>, sent |-> 0, closed |-> FALSE]
    /\ grpcStream = [state |-> "open", out |-> 0, ctxDone |-> FALSE]
    /\ bridge = [w |-> "read", g |-> "select", h |-> "running"]
    /\ connections = {1}

BridgeNext ==
    /\ Frame("bridge")
    /\ \/ \E kind \in {"known", "unknown"} : ClientWrite(kind)
       \/ ClientDisconnect
       \/ ServerRespond
       \/ ServerEnd
       \/ BridgeStep

BridgeSpec == BridgeInit /\ [][BridgeNext]_vars /\ WF_vars(Frame("bridge") /\ BridgeStep)

\* One composition for a session with stream_tokens, for every response of up to
\* MaxTokens + 1 events and both settings of d.config.StreamTokens.
ComposeInit ==
    /\ ServiceIdle
    /\ IdleExcept("llm")
    /\ llm \in [stream : BOOLEAN, deltas : Responses, read : {0}, pc : {"call"}]
    /\ tokens = <<>>

ComposeNext ==
    /\ Frame("llm")
    /\ \E ok \in BOOLEAN :
         \/ ComposeFallback(ok)
         \/ StreamRead(ok)
         \/ StreamEnd(ok)

ComposeSpec == ComposeInit /\ [][ComposeNext]_vars

\* Every repository id, indexed, searched (the store holding 1..MaxBackendHits
\* objects near the query vector) and deleted.
NameInit ==
    /\ ServiceIdle
    /\ IdleExcept("names")
    /\ wv \in [repoID : RepositoryIDs, class : {<<>>}, used : {{}}, hits : {-1}]

NameNext ==
    /\ Frame("names")
    /\ \/ IndexCollection
       \/ \E n \in 1..MaxBackendHits : SearchSemantic(n)
       \/ DeleteIndexCollection

NameSpec == NameInit /\ [][NameNext]_vars

\* chunkFile called on every file of at most MaxWindows lines with each of
\* LoopOptions. The goroutine that runs the loop keeps running; a loop that has
\* appended more than MaxWindows chunks (more than the file has lines) is followed
\* no further.
LoopInit ==
    /\ ServiceIdle
    /\ IdleExcept("chunk")
    /\ cFile \in {f \in Files : FileLen(f) <= MaxWindows}
    /\ cOpt \in LoopOptions
    /\ cI = 0
    /\ cChunks = <<>>
    /\ cpc = "loop"

LoopNext == Frame("chunk") /\ Len(cChunks) <= MaxWindows /\ ChunkStep

LoopSpec == LoopInit /\ [][LoopNext]_vars /\ WF_vars(LoopNext)

\* One submission, its handler and its pipeline goroutine, and DeleteRepository
\* calls at any moment. The handler and the goroutine keep running.
LifeInit ==
    /\ ServiceIdle
    /\ IdleExcept("life")
    /\ life = [deleted |-> {}, code |-> ""]

LifeNext ==
    /\ LibFrame("life")
    /\ \/ /\ nextJob = 1
          /\ \E t \in Tenants, k \in IdemKeys, u \in Urls, ok \in BOOLEAN :
                UploadGitRepository(t, k, u, ok)
          /\ UNCHANGED life
       \/ \E j \in RepoIds : PipelineRun(j) /\ UNCHANGED life
       \/ \E t \in Tenants, r \in RepoIds, o \in {"ok", "fail", "routing"} :
             DeleteRepository(t, r, o)

LifeSpec ==
    /\ LifeInit
    /\ [][LifeNext]_vars
    /\ \A j \in RepoIds : WF_vars(LibFrame("life") /\ UNCHANGED life /\ PipelineRun(j))
----------------------------------------------------------------------------
(* Claims *)

Last(q) == q[Len(q)]

\* C1: a Start is accepted (a session exists) only for a repository whose ingestion
\* pipeline has already published READY to upload_status.
C1_StartOnlyAfterReady == \A x \in sessions : published[x.repo].ready

\* A state may follow another in the sequence written under one upload_status key:
\* PENDING first, then the next pipeline state, or FAILED to end it.
LegalStep(old, new) ==
    \/ old = "ABSENT" /\ new = "PENDING"
    \/ old \notin {"ABSENT", "READY", "FAILED"} /\ new = NextState(old)
    \/ old \notin {"ABSENT", "FAILED"} /\ new = "FAILED"

\* C2: the states written under one key (tenant, upload_id) form a prefix of PENDING,
\* EXTRACTING, CHUNKING, EMBEDDING, INDEXING, READY, optionally ended by FAILED:
\* every write under a key follows the state written before it.
C2_StatusSequenceMonotone ==
    [][\A k \in UploadKeys :
          uploadStatus'[k] # uploadStatus[k] =>
              LegalStep(uploadStatus[k].state, uploadStatus'[k].state)]_vars

\* C3: READY and FAILED are terminal: a job that has published READY or FAILED
\* publishes nothing after it.
C3_TerminalIsFinal ==
    [][\A j \in RepoIds :
          published[j].last \in {"READY", "FAILED"} => published'[j] = published[j]]_vars

\* C4: a submission that finds a job under its (tenant, idempotency_key) starts no
\* pipeline and answers with the existing job's repository_id.
C4_UploadIdempotent ==
    \A j \in Submitted :
        jobs[j].existing # 0 =>
            /\ jobs[j].ppc = "none"
            /\ resp[j].code = "OK" => resp[j].repo = jobs[j].existing

EventRank(e) ==
    CASE e.type = "SearchStarted" -> 1
      [] e.type = "SearchHit" -> 2
      [] e.type = "CompositionStarted" -> 3
      [] e.type = "CompositionToken" -> 4
      [] e.type = "CompositionComplete" -> 5
      [] e.type = "Complete" -> 6
      [] OTHER -> 7

HasEvent(type) == \E i \in 1..Len(events) : events[i].type = type

\* C5: the events of a query cycle are sent in the order SearchStarted, SearchHit*,
\* CompositionStarted, CompositionToken*, CompositionComplete, Complete, each of the
\* four single events at most once and none before the one it follows; a cycle that
\* handleChatMessage finished has them all and ends with Complete.
C5_EventOrder ==
    /\ \A i \in 1..Len(events) : EventRank(events[i]) <= 6
    /\ events # <<>> => events[1].type = "SearchStarted"
    /\ \A i \in 1..(Len(events) - 1) :
          \/ EventRank(events[i]) < EventRank(events[i + 1])
          \/ /\ EventRank(events[i]) = EventRank(events[i + 1])
             /\ events[i].type \in {"SearchHit", "CompositionToken"}
    /\ \A i \in 1..Len(events) :
          /\ events[i].type \in {"CompositionToken", "CompositionComplete"} =>
                \E h \in 1..(i - 1) : events[h].type = "CompositionStarted"
          /\ events[i].type = "Complete" =>
                i > 1 /\ events[i - 1].type = "CompositionComplete"
    /\ (spc = "recv" /\ cycles > 0) => (events # <<>> /\ Last(events).type = "Complete")

\* A finished cycle with hits and tokens.
C5_Witness ==
    /\ spc = "recv"
    /\ cycles > 0
    /\ HasEvent("SearchHit")
    /\ HasEvent("CompositionToken")
    /\ Last(events).type = "Complete"

IsHit(e) == e.type = "SearchHit"

\* C6: with N search results the hits sent have ranks 1, 2, ... in order; rank 1..3
\* are EARLY and the rest FINAL when N >= 3, all are FINAL when N < 3; when
\* CompositionStarted is sent exactly N hits have been sent and its context_chunks
\* is N.
C6_HitsRankedAndPhased ==
    LET hits == SelectSeq(events, IsHit)
    IN /\ Len(hits) <= cycle.n
       /\ \A i \in 1..Len(hits) :
             /\ hits[i].rank = i
             /\ hits[i].phase = IF cycle.n >= 3 /\ i <= 3 THEN "EARLY" ELSE "FINAL"
       /\ \A i \in 1..Len(events) :
             events[i].type = "CompositionStarted" =>
                 /\ events[i].n = cycle.n
                 /\ Len(hits) = cycle.n
                 /\ i = cycle.n + 2

\* A cycle with more than three results that has reached composition.
C6_Witness == cycle.n > 3 /\ HasEvent("CompositionStarted")

\* C7: when the retriever or the composer fails in a query cycle while the transport
\* is up, an Error event is sent and ChatWithRepository goes back to receiving.
C7_FailureKeepsSession ==
    [][(/\ ~ctxCancelled.stream
        /\ \/ spc = "search" /\ spc' # "search" /\ ~cycle'.searchOk
           \/ spc = "compose" /\ spc' # "compose" /\ ~cycle'.composeOk)
       => (spc' = "recv" /\ events' # <<>> /\ Last(events').type = "Error")]_vars

\* C8: the search fails only when both the lexical and the semantic backend (query
\* embedding included) fail.
C8_PartialFailureTolerated == (cycle.lexOk \/ cycle.semOk) => cycle.searchOk

CancelInFlight == \E i \in 1..Len(inbox) : inbox[i].kind = "Cancel"

\* C9: a retrieval or LLM call that is outstanding when the client has sent Cancel
\* does not run to completion.
C9_CancelStopsOutstandingCall ==
    [][(spc \in {"search", "compose"} /\ CancelInFlight) =>
          ~ \/ spc = "search" /\ spc' \in {"early", "final"}
            \/ spc = "compose" /\ spc' = "complete"]_vars

C11_SingleSessionPerStream == Cardinality(sessions) <= 1 /\ nextSession <= 2

CountEvents(q, type) == Len(SelectSeq(q, LAMBDA e : e.type = type))

\* C12: a CompositionToken is sent only in a cycle of a session whose stream_tokens
\* option is true; a cycle that completes has sent exactly one CompositionComplete,
\* and no CompositionToken if the option is false.
C12_TokensOnlyWhenStreaming ==
    [][/\ CountEvents(events', "CompositionToken") > CountEvents(events, "CompositionToken")
          => session.streamTokens
       /\ (spc = "complete" /\ spc' = "recv") =>
             /\ CountEvents(events', "CompositionComplete") = 1
             /\ ~session.streamTokens => CountEvents(events', "CompositionToken") = 0]_vars

\* A cycle of a session without stream_tokens that has sent CompositionComplete.
C12_Witness ==
    /\ spc = "complete"
    /\ ~session.streamTokens
    /\ HasEvent("CompositionComplete")

InputsIn(d) == {i \in 1..Len(mChunks) : d.start <= mChunks[i].start /\ mChunks[i].end <= d.end}

MinOf(S) == CHOOSE x \in S : \A y \in S : x <= y

MaxOf(S) == CHOOSE x \in S : \A y \in S : y <= x

C14_ScoreInUnitRange == bOut # -1 => (0 <= bOut /\ bOut <= 100)

\* A score the boosts carry above 1, returned as 1.
C14_Witness == bOut = 100 /\ bIn.score = 90 /\ bIn.both /\ bIn.dense

Covered(l) == \E k \in 1..Len(cChunks) : cChunks[k].start <= l /\ l <= cChunks[k].end

Stride == cOpt.size - cOpt.overlap

\* C16 as claimed: two chunks emitted one after the other start chunk_size - overlap
\* lines apart, unless the second is the last chunk of the file.
C16_StrideBetweenConsecutiveChunks ==
    cpc = "done" =>
        \A k \in 1..(Len(cChunks) - 2) : cChunks[k + 1].start = cChunks[k].start + Stride

\* C16 as amended: every chunk starts at a window boundary, 1 + m * (chunk_size -
\* overlap); two chunks emitted one after the other are one stride apart for every
\* window between them that was dropped as whitespace-only, plus one: exactly
\* chunk_size - overlap apart when no window between them was dropped.
C16_StrideUpToDroppedWindows ==
    \A k \in 1..Len(cChunks) :
        /\ (cChunks[k].start - 1) % Stride = 0
        /\ k < Len(cChunks) =>
              /\ cChunks[k + 1].start > cChunks[k].start
              /\ \A w \in (cChunks[k].start + 1)..(cChunks[k + 1].start - 1) :
                    (w - 1) % Stride = 0 =>
                        WhitespaceOnly(cFile, w, Min(w + cOpt.size - 1, FileLen(cFile)))

\* Three chunks, with a whitespace-only window dropped between the first two.
C16_Witness ==
    /\ cpc = "done"
    /\ Len(cChunks) = 3
    /\ cChunks[2].start = cChunks[1].start + 2 * Stride

\* Every vector of q has the dimension of the first.
SameDimension(q) == \A i \in 1..Len(q) : q[i] = q[1]

\* C17: the job is at INDEXING or READY only if there is exactly one vector per chunk
\* and all vectors have one dimension; what is upserted has one dimension, and a job
\* that ended FAILED in the embedding step upserted nothing.
C17_EmbeddingCardinalityIsHardError ==
    /\ eState \in {"INDEXING", "READY"} => Len(eVecs) = eChunks /\ SameDimension(eVecs)
    /\ SameDimension(eStore.vecs)
    /\ eErr \in {"count", "embedding"} => eStore.vecs = <<>>

\* C18: a job fails with an embedding error only after the embedding call has been
\* retried at least 3 times, that is after more than 3 calls.
C18_EmbeddingFailureRetried ==
    (eState = "FAILED" /\ eErr = "embedding") => eCalls > 3

\* C19: a DeleteIndex call that follows a successful one, and reaches the store,
\* succeeds, and the collection and the work directory stay gone.
C19_DeleteIndexIdempotent ==
    \A i \in 2..Len(dCalls) :
        (dCalls[i - 1] = "ok" /\ dCalls[i] # "unavailable")
            => dCalls[i] = "ok" /\ ~eStore.class /\ ~eStore.dir

\* C20: the keys built for two distinct tenant ids, whatever the ids, have no key in
\* common.
C20_TenantKeysDisjoint ==
    (kKeys # <<>> /\ kIn.t1 # kIn.t2) => kKeys[1] \cap kKeys[2] = {}

\* C23: whenever the status a job last published is READY, repo_meta of its
\* repository exists and records READY.
C23_ReadyImpliesMetadata ==
    \A j \in Submitted :
        published[j].last = "READY" => repoMeta[<<jobs[j].tenant, j>>] = "READY"

\* C24: the pipeline of a job never fails on the cancellation of the request that
\* submitted it.
C24_PipelineDetachedFromCaller == \A j \in Submitted : jobs[j].err # "context canceled"

\* C24 witness: the request context of a job was done before its pipeline left
\* PENDING (the handler had returned, or the caller had cancelled), and the pipeline
\* went on to publish READY.
C24_Witness ==
    \E j \in Submitted :
        jobs[j].ctx = "early" /\ published[j].last = "READY" /\ resp[j].code = "OK"

\* C25: GetRepository leaves repo_meta, upload_status and repo_idx unchanged, and the
\* state repo_meta records for a repository changes only in a step of its job.
C25_ReadsAreReadOnly ==
    [][/\ (\E t \in Tenants, r \in RepoIds : GetRepository(t, r))
            => UNCHANGED <<repoMeta, uploadStatus, repoIdx>>
       /\ \A k \in MetaKeys : repoMeta'[k] # repoMeta[k] => jobs'[k[2]] # jobs[k[2]]]_vars

C28_ProgressPersistedWithState ==
    \A k \in UploadKeys :
        /\ uploadStatus[k].state = "EMBEDDING"
              => uploadStatus[k].progress = calculateProgress(1, 1, 1, 0, 0)
        /\ uploadStatus[k].state = "INDEXING"
              => uploadStatus[k].progress = calculateProgress(1, 1, 1, 1, 0)
        /\ uploadStatus[k].state = "READY"
              => uploadStatus[k].progress = calculateProgress(1, 1, 1, 1, 1)

\* C21: an upload whose bytes exceed the limit, however split into chunks, starts no
\* pipeline, and ends with INVALID_ARGUMENT.
C21_UploadSizeLimit ==
    \A h \in 1..MaxUploads :
        ups[h].total > UploadLimit =>
            /\ h \notin uStarted
            /\ ups[h].pc = "done" => ups[h].code = "InvalidArgument"

\* C26: among the uploads with one (tenant, idempotency_key), in any interleaving, at
\* most one starts a pipeline, and one that finds a status answers with the
\* repository id of that status.
C26_StreamingUploadIdempotent ==
    /\ Cardinality(uStarted) <= 1
    /\ \A h \in 1..MaxUploads : ups[h].existing # 0 => ups[h].repo = ups[h].existing

\* How often repository r occurs in the pages received.
Received(r) ==
    Cardinality({<<p, i>> \in (1..Len(lPages)) \X (1..MaxRepos) :
                    i <= Len(lPages[p]) /\ lPages[p][i] = r})

\* C22: no page holds more than page_size entries (20 when unset, at most 100), no
\* repository is received twice, and once a response carries an empty
\* next_page_token every repository of the tenant has been received.
C22_PaginationCoversEachOnce ==
    /\ \A p \in 1..Len(lPages) :
          Len(lPages[p]) <= (IF lIn.pageSize \in 1..100 THEN lIn.pageSize ELSE 20)
    /\ \A r \in 1..lIn.n : Received(r) <= 1
    /\ (Len(lPages) > 0 /\ lToken = "") => \A r \in 1..lIn.n : Received(r) = 1

\* chunkFile has returned by dropping the last window: lines remain from cI on, and
\* no chunk starts there.
DroppedTail ==
    /\ cpc = "done"
    /\ cI < FileLen(cFile)
    /\ \A k \in 1..Len(cChunks) : cChunks[k].start # cI + 1

\* C29 as claimed: for every options value, a dropped last window is not the first
\* window and all its lines lie in the range of the window before it.
C29_DroppedTailCovered ==
    DroppedTail => cI >= Stride /\ FileLen(cFile) <= (cI - Stride) + cOpt.size

\* C29 as amended: the same, for options with overlap >= chunk_size / 10 - 1 (the
\* values the pipeline uses, 100 and 10, among them).
C29_DroppedTailCoveredForWideOverlap ==
    (DroppedTail /\ cOpt.overlap >= cOpt.size \div 10 - 1) =>
        cI >= Stride /\ FileLen(cFile) <= (cI - Stride) + cOpt.size

\* A last window dropped under the options the pipeline uses.
C29_Witness == DroppedTail /\ cOpt = [size |-> 100, overlap |-> 10] /\ Len(cChunks) > 0

C32_OnlyInactiveReaped ==
    [][(limiters # 0 /\ limiters' = 0)
         => /\ \A c \in 1..MaxCallers :
                 ~(reqs[c].pc = "allow" /\ reqs[c].limiter = limiters)
            /\ buckets[limiters] = BurstSize]_vars

\* C33: once the WebSocket client has disconnected or the gRPC stream has ended,
\* eventually both goroutines of the bridge have exited, handleConnection has
\* returned and the connection is closed and out of the registry.
C33_BridgeShutsDown ==
    (~wsConn.connected \/ grpcStream.state = "ended")
        ~> (/\ bridge.w = "returned"
            /\ bridge.g = "returned"
            /\ bridge.h = "returned"
            /\ wsConn.closed
            /\ connections = {})

\* The deltas read so far that are not empty, in order.
Forwarded ==
    SelectSeq(SubSeq(llm.deltas, 1, llm.read), LAMBDA d : d # <<>>)

\* C34 (as stated): for a session with stream_tokens, the texts of the
\* CompositionToken events are the LLM's content deltas read so far, one event per
\* delta and in order, and a token is sent only while the response is still being
\* read.
C34_TokensNotBuffered ==
    /\ [](tokens = Forwarded)
    /\ [][tokens' # tokens => llm'.pc = "call"]_vars

\* C34 (amended): the same, when the LLM client's own StreamTokens setting is on.
C34_TokensNotBufferedWhenClientStreams ==
    /\ [](llm.stream => tokens = Forwarded)
    /\ [][(llm.stream /\ tokens' # tokens) => llm'.pc = "call"]_vars

\* The first token of a response has been sent and the next event, another content
\* delta, has not been read yet.
C34_Witness ==
    /\ llm.stream
    /\ llm.pc = "call"
    /\ Len(tokens) = 1
    /\ llm.read < Len(llm.deltas)
    /\ llm.deltas[llm.read + 1] # <<>>


\* C35: every access to the vector store made for a repository (create, upsert,
\* query, the read of the hits out of the query response, delete) uses one name,
\* toWeaviateClassName(repository_id).
C35_OneCollectionName ==
    \A u \in wv.used : u[2] = toWeaviateClassName(wv.repoID)


\* C37: once ChatWithRepository has returned, the sessions map holds no session
\* created on the stream (every session of ChatSpec is created on its one stream).
C37_NoSessionLeak == spc = "closed" => sessions = {}


\* C38: the list deduplicateFileChunks returns holds no two chunks that satisfy the
\* 5-line overlap predicate, and every line of every input chunk lies in the line
\* range of a returned chunk.
C38_DedupFixpoint ==
    mpc = "done" =>
        /\ \A a, b \in 1..Len(mDedup) :
              a # b => ~(/\ mDedup[a].end >= mDedup[b].start - 5
                         /\ mDedup[a].start <= mDedup[b].end + 5)
        /\ \A i \in 1..Len(mChunks) : \A l \in mChunks[i].start..mChunks[i].end :
              \E k \in 1..Len(mDedup) : mDedup[k].start <= l /\ l <= mDedup[k].end

\* Three chunks in, two out: the second one merged out of two inputs, the first one
\* more than five lines before it.
C38_Witness ==
    /\ mpc = "done"
    /\ Len(mChunks) = 3
    /\ Len(mDedup) = 2
    /\ mDedup[2].source = "MERGED"
    /\ mDedup[2].end > mChunks[2].end
    /\ mDedup[1].end < mDedup[2].start - 5


\* Every chunk emitted spans at most chunk_size lines.
SpansWithinChunkSize ==
    \A k \in 1..Len(cChunks) : cChunks[k].end - cChunks[k].start + 1 <= cOpt.size

\* C39, as stated: for every file and every ChunkOptions with chunk_size >= 1 and
\* chunk_overlap >= 0 the windowing loop of chunkFile terminates, never slices the
\* lines out of bounds, and every chunk it emits spans at most chunk_size lines.
C39_ChunkingTerminates ==
    /\ <>(cpc = "done")
    /\ [](cpc # "panic" /\ SpansWithinChunkSize)

\* C39, amended: the same, for ChunkOptions with chunk_overlap < chunk_size.
C39_ChunkingTerminatesForNarrowOverlap ==
    (cOpt.overlap < cOpt.size) =>
        (/\ <>(cpc = "done")
         /\ [](cpc # "panic" /\ SpansWithinChunkSize))

\* A loop with chunk_size 3 and overlap 2 that has ended with windows dropped as
\* whitespace between two chunks.
C39_Witness ==
    /\ cpc = "done"
    /\ cOpt = [size |-> 3, overlap |-> 2]
    /\ Len(cChunks) >= 2
    /\ \E k \in 1..(Len(cChunks) - 1) : cChunks[k + 1].start > cChunks[k].start + 1


\* C36: once DeleteRepository has returned success for a repository, its repo_meta
\* key is absent and no routing entry of the tenant names it, in every later state.
C36_DeletionIsFinal ==
    \A d \in life.deleted :
        /\ repoMeta[d] = NoMeta
        /\ \A k \in RoutingKeys : k[1] = d[1] => repoIdx[k] # d[2]

\* C40: the upload_status of every accepted job (its goroutine started) eventually
\* records READY or FAILED for it.
C40_EventuallyTerminalStatus ==
    \A j \in RepoIds :
        (jobs[j].ppc # "none") ~>
            (/\ jobs[j].ppc # "none"
             /\ uploadStatus[JobKey(j)].repo = j
             /\ uploadStatus[JobKey(j)].state \in {"READY", "FAILED"})

====
